---- MODULE Spec2Model ----
(***************************************************************************)
(* The Generation Controller and Generation Pipeline of topos-cli          *)
(* (src/topos/channel/debatesim.py): integrate() on the request-handling   *)
(* context, the single consumer thread process_tasks(), and the body of    *)
(* check_and_reflect().                                                    *)
(*                                                                         *)
(* Python values are encoded as follows.  A str is a sequence of character *)
(* codes, except user and session ids, which are TLA+ strings.  A sentence *)
(* is a one-character str, written as its character code.  None is 0.  A   *)
(* generation nonce str(uuid4()) is named by the index of its generation;  *)
(* NonceStr gives its characters.  A dict is a function.  A float is a     *)
(* fixed-point number in units of 1/Scale, and the result of an arithmetic *)
(* operation is rounded to such a number, as a float operation rounds its  *)
(* result to a float.                                                      *)
(***************************************************************************)
EXTENDS Integers, Sequences, FiniteSets, TLC

\* ---------------------------------------------------------------- bounds
MaxSubmits == 2
MaxResets == 1
MaxLen == 3

Sessions == {"s1", "s2"}
Users == {"u1", "u2"}
Contents == {2}

None == 0

VARIABLES
  app_state,           \* AppState: key -> value
  task_queue,          \* self.task_queue
  current_generation,  \* self.current_generation
  generations,         \* the nonces issued by generate_nonce, in order, with their session and user
  loop,                \* the request-handling context: where it is inside integrate
  cons,                \* the consumer thread: where it is inside process_tasks
  co,                  \* the coroutine objects made by calling check_and_reflect, by nonce,
                       \* each with its locals, the messages it has broadcast,
                       \* whether it has changed app_state, and the number of
                       \* puts made before execute_task took its task
  calls,               \* number of integrate calls so far
  resets,              \* number of direct stop_all_reflect_tasks calls so far
  puts,                \* number of task_queue.put calls so far
  fn                   \* argument and result of a function applied on its own

vars == <<app_state, task_queue, current_generation, generations, loop, cons, co,
          calls, resets, puts, fn>>

\* ---------------------------------------------------------------- AppState
get_value(state, key, default) ==
  IF key \in DOMAIN state THEN state[key] ELSE default

set_value(state, key, value) ==
  [k \in DOMAIN state \cup {key} |-> IF k = key THEN value ELSE state[k]]

set_state(state, key, value) ==
  set_value(state, key, value)

EmptyState == <<>>

KeyMessageHistory(session_id) == <<"message_history_", session_id>>
KeyPriorOntology(session_id) == <<"prior_ontology_", session_id>>
KeyPriorOntologyWritten(session_id) == <<"prior_ontology", session_id, "_">>
KeyPreviousClusters(session_id) == <<"previous_clusters_", session_id>>
KeyWepccResults == <<"wepcc_results">>
KeyAggregatedScores == <<"aggregated_scores">>
KeyAddressedClusters == <<"addressed_clusters">>
KeyUnaddressedClusters == <<"unaddressed_clusters">>

\* ---------------------------------------------------------------- dict helpers
EmptyDict == <<>>

Get(dict, key, default) == IF key \in DOMAIN dict THEN dict[key] ELSE default

Put(dict, key, value) ==
  [k \in DOMAIN dict \cup {key} |-> IF k = key THEN value ELSE dict[k]]

\* the keys of a dict in one fixed iteration order
RECURSIVE KeysOf(_)
KeysOf(S) ==
  IF S = {} THEN <<>>
  ELSE LET k == CHOOSE x \in S : TRUE IN <<k>> \o KeysOf(S \ {k})

\* ---------------------------------------------------------------- Cluster
\* str(uuid4()) of the n-th generation
NonceStr(n) == <<n + 1, 1>>

\* sorted(iterable) over strings that are single characters
sorted(xs) == SortSeq(xs, LAMBDA a, b : a < b)

\* hashlib.sha256(json.dumps(x).encode()).hexdigest(): injective in x.  A digest
\* is a string as a nonce is; it starts with 0, which no NonceStr does.
sha256_json(x) == <<0, x>>

generate_hash_Unsorted(sentences) ==
  sha256_json(sentences)

\* Cluster.generate_hash, lines 96-98
generate_hash(sentences) ==
  sha256_json(sorted(sentences))

\* Cluster.__init__, lines 88-94
Cluster(cluster_id, sentences, user_id, generation, session_id) ==
  [cluster_id |-> cluster_id,
   sentences |-> sentences,
   cluster_hash |-> generate_hash(sentences),
   user_id |-> user_id,
   generation |-> generation,
   session_id |-> session_id]

\* ---------------------------------------------------------------- clustering
\* aggregate_user_messages, lines 310-318
RECURSIVE aggregate_user_messages(_)
aggregate_user_messages(message_history) ==
  IF message_history = <<>> THEN EmptyDict
  ELSE LET n == Len(message_history)
           message == message_history[n]
           user_messages == aggregate_user_messages(SubSeq(message_history, 1, n - 1))
       IN Put(user_messages, message.user_id,
              Append(Get(user_messages, message.user_id, <<>>), message.content))

\* ArgumentDetection.cluster_sentences(messages, distance_threshold): the grouping
\* of one participant's sentences; a sentence's group is its topic
Topic(sentence) == sentence % 2

cluster_sentences(messages) ==
  [cluster_id \in {Topic(messages[i]) : i \in DOMAIN messages} |->
     SelectSeq(messages, LAMBDA m : Topic(m) = cluster_id)]

\* cluster_messages, lines 458-467.  The arguments of Cluster(...) are passed in
\* the order (user_id, generation, session_id, cluster_id, cluster_sentences).
cluster_messages(user_messages, generation, session_id) ==
  [user_id \in {u \in DOMAIN user_messages : Len(user_messages[u]) > 1} |->
     LET clusters == cluster_sentences(user_messages[user_id])
     IN [cluster_id \in DOMAIN clusters |->
           Cluster(user_id, NonceStr(generation), session_id, cluster_id, clusters[cluster_id])]]

ClusterChanged_HashOnly(user_previous, cluster_id, cluster) ==
  /\ cluster_id \in DOMAIN user_previous
  /\ cluster.cluster_hash # user_previous[cluster_id].cluster_hash

\* incremental_clustering, lines 328-329: the test of one cluster
ClusterChanged(user_previous, cluster_id, cluster) ==
  \/ cluster_id \notin DOMAIN user_previous
  \/ cluster.cluster_hash # user_previous[cluster_id].cluster_hash

\* incremental_clustering, lines 326-330: the loop over one participant's clusters
RECURSIVE UpdatedUserClusters(_, _, _, _)
UpdatedUserClusters(cluster_ids, user_clusters, user_previous, updated) ==
  IF cluster_ids = <<>> THEN updated
  ELSE LET cluster_id == Head(cluster_ids)
           cluster == user_clusters[cluster_id]
       IN UpdatedUserClusters(Tail(cluster_ids), user_clusters, user_previous,
            IF ClusterChanged(user_previous, cluster_id, cluster)
            THEN Put(updated, cluster_id, cluster)
            ELSE updated)

\* incremental_clustering, lines 322-330: the loop over the participants
RECURSIVE UpdatedClusters(_, _, _, _)
UpdatedClusters(user_ids, clusters, previous_clusters, updated_clusters) ==
  IF user_ids = <<>> THEN updated_clusters
  ELSE LET user_id == Head(user_ids)
       IN UpdatedClusters(Tail(user_ids), clusters, previous_clusters,
            IF user_id \notin DOMAIN previous_clusters
            THEN Put(updated_clusters, user_id, clusters[user_id])
            ELSE Put(updated_clusters, user_id,
                     UpdatedUserClusters(KeysOf(DOMAIN clusters[user_id]), clusters[user_id],
                                         previous_clusters[user_id], EmptyDict)))

\* incremental_clustering, lines 320-332
incremental_clustering(clusters, previous_clusters) ==
  UpdatedClusters(KeysOf(DOMAIN clusters), clusters, previous_clusters, EmptyDict)

\* ---------------------------------------------------------------- extraction and scoring
\* floats are fixed-point numbers in units of 1/Scale
Scale == 100
cutoff == 50
unaddressed_score_multiplier == 250

\* a persuasiveness_justification string as lines 535-537 read it: json says
\* whether json.loads accepts it, numeric whether
\* float(persuasiveness_object['content']['persuasiveness_score']) has a value
Justification(parses, score) ==
  [json |-> parses, numeric |-> TRUE, persuasiveness_score |-> score]

\* a string that json.loads accepts and that holds no numeric
\* content.persuasiveness_score: line 537 raises KeyError, TypeError or ValueError
JustificationWithoutScore ==
  [json |-> TRUE, numeric |-> FALSE, persuasiveness_score |-> 0]

\* ArgumentDetection.fetch_argument_definition(sentences): the argument record of a
\* group of sentences, a function of the text it is given
fetch_argument_definition(sentences) ==
  [warrant |-> sentences,
   evidence |-> sentences,
   persuasiveness_justification |-> Justification(TRUE, 80),
   claim |-> sentences,
   counterclaim |-> sentences]

wepcc_cluster_OneParticipant(clusters) ==
  [user_id \in {u \in DOMAIN clusters : \A v \in DOMAIN clusters : KeysOf({u, v})[1] = u} |->
     [cluster_id \in DOMAIN clusters[user_id] |->
        fetch_argument_definition(clusters[user_id][cluster_id].sentences)]]

\* wepcc_cluster, lines 469-490.  report_wepcc_result is an async function called
\* without await: the call makes a coroutine object that never runs.
wepcc_cluster(clusters) ==
  [user_id \in DOMAIN clusters |->
     [cluster_id \in DOMAIN clusters[user_id] |->
        fetch_argument_definition(clusters[user_id][cluster_id].sentences)]]

\* report_wepcc_result, lines 400-408: the event the coroutine is to broadcast
report_wepcc_result(generation_nonce, user_id, cluster_id, cluster_hash, wepcc_result) ==
  [status |-> "wepcc_result", generation |-> generation_nonce, user_id |-> user_id,
   cluster_id |-> cluster_id, cluster_hash |-> cluster_hash, wepcc_result |-> wepcc_result]

\* wepcc_cluster, lines 487-489: the calls of report_wepcc_result, one for each
\* cluster, with the arguments the code passes
wepcc_reports(clusters) ==
  UNION {{report_wepcc_result(clusters[user_id][cluster_id].cluster_hash, user_id, cluster_id,
                              clusters[user_id][cluster_id].cluster_hash,
                              fetch_argument_definition(clusters[user_id][cluster_id].sentences)) :
          cluster_id \in DOMAIN clusters[user_id]} : user_id \in DOMAIN clusters}

\* cosine_similarity of the embeddings of two texts
sim_score(counterclaim, claim) ==
  IF counterclaim = claim THEN Scale
  ELSE IF \E i \in DOMAIN counterclaim : \E j \in DOMAIN claim : counterclaim[i] = claim[j]
       THEN 75 ELSE 25

\* the argument records of the participants other than user_idA, in iteration order
RECURSIVE OtherRecords(_, _, _)
OtherRecords(user_ids, wepcc_results, user_idA) ==
  IF user_ids = <<>> THEN <<>>
  ELSE LET user_idB == Head(user_ids)
           mine == IF user_idB = user_idA THEN <<>>
                   ELSE LET ids == KeysOf(DOMAIN wepcc_results[user_idB])
                        IN [i \in DOMAIN ids |-> wepcc_results[user_idB][ids[i]]]
       IN mine \o OtherRecords(Tail(user_ids), wepcc_results, user_idA)

AboveCutoff_OrEqual(sim, cut) ==
  sim >= cut

\* get_cluster_weight_modulator, line 508: if sim_score > cutoff
AboveCutoff(sim, cut) ==
  sim > cut

normalized_value_Unscaled(sim, cut) ==
  sim - cut

\* get_cluster_weight_modulator, line 513: (sim_score - cutoff) / (1 - cutoff)
normalized_value(sim, cut) ==
  ((sim - cut) * Scale) \div (Scale - cut)

\* get_cluster_weight_modulator, lines 508-514: the normalized values of one cluster
NormalizedValues(wepccA, others, cut) ==
  LET sims == [i \in DOMAIN others |-> sim_score(wepccA.counterclaim, others[i].claim)]
      phase_sim_A == SelectSeq(sims, LAMBDA x : AboveCutoff(x, cut))
  IN [i \in DOMAIN phase_sim_A |-> normalized_value(phase_sim_A[i], cut)]

\* get_cluster_weight_modulator, lines 492-517
get_cluster_weight_modulator(wepcc_results, cut) ==
  [user_idA \in DOMAIN wepcc_results |->
     [cluster_idA \in DOMAIN wepcc_results[user_idA] |->
        NormalizedValues(wepcc_results[user_idA][cluster_idA],
                         OtherRecords(KeysOf(DOMAIN wepcc_results), wepcc_results, user_idA),
                         cut)]]

RECURSIVE MaxOf(_)
MaxOf(values) ==
  IF Len(values) = 1 THEN values[1]
  ELSE LET m == MaxOf(Tail(values)) IN IF values[1] > m THEN values[1] ELSE m

FoldStep_NoRemainder(shadow_coverage, value, cut) ==
  shadow_coverage + (value * (Scale - cut)) \div Scale

\* get_cluster_shadow_coverage, line 592:
\* shadow_coverage += (value * (1.0 - cutoff)) * (1 - shadow_coverage)
FoldStep(shadow_coverage, value, cut) ==
  shadow_coverage + ((value * (Scale - cut)) * (Scale - shadow_coverage)) \div (Scale * Scale)

\* get_cluster_shadow_coverage, lines 590-592: the fold over the values
RECURSIVE FoldCoverage(_, _, _, _)
FoldCoverage(values, highest, shadow_coverage, cut) ==
  IF values = <<>> THEN shadow_coverage
  ELSE FoldCoverage(Tail(values), highest,
         IF Head(values) # highest
         THEN FoldStep(shadow_coverage, Head(values), cut)
         ELSE shadow_coverage,
         cut)

HasValues_MoreThanOne(normalized_values) ==
  Len(normalized_values) > 1

\* get_cluster_shadow_coverage, line 587: if normalized_values
HasValues(normalized_values) ==
  normalized_values # <<>>

\* get_cluster_shadow_coverage, lines 580-605
get_cluster_shadow_coverage(cluster_weight_modulator, cut) ==
  [user_id \in DOMAIN cluster_weight_modulator |->
     [cluster_idA \in {c \in DOMAIN cluster_weight_modulator[user_id] :
                         HasValues(cluster_weight_modulator[user_id][c])} |->
        LET normalized_values == cluster_weight_modulator[user_id][cluster_idA]
            highest == MaxOf(normalized_values)
        IN FoldCoverage(normalized_values, highest, highest, cut)]]

addressed_score_Added(modulator, persuasiveness_score) ==
  ((Scale + modulator) * persuasiveness_score) \div Scale

\* gather_final_results, line 538: (1 - modulator) * persuasiveness_score
addressed_score(modulator, persuasiveness_score) ==
  ((Scale - modulator) * persuasiveness_score) \div Scale

unaddressed_score_NoMultiplier(persuasiveness_score, multiplier) ==
  persuasiveness_score

\* gather_final_results, line 559: persuasiveness_score * unaddressed_score_multiplier
unaddressed_score(persuasiveness_score, multiplier) ==
  (persuasiveness_score * multiplier) \div Scale

\* gather_final_results, lines 533-571: the entries of one participant
RECURSIVE UserEntries(_, _, _, _)
UserEntries(cluster_ids, weight_mods, user_wepcc, multiplier) ==
  IF cluster_ids = <<>> THEN <<>>
  ELSE LET cluster_id == Head(cluster_ids)
           pj == user_wepcc[cluster_id].persuasiveness_justification
           entry ==
             IF ~pj.json \/ ~pj.numeric THEN <<>>
             ELSE IF cluster_id \in DOMAIN weight_mods
                  THEN <<[cluster |-> cluster_id, type |-> "addressed",
                          score |-> addressed_score(weight_mods[cluster_id],
                                                    pj.persuasiveness_score)]>>
                  ELSE <<[cluster |-> cluster_id, type |-> "unaddressed",
                          score |-> unaddressed_score(pj.persuasiveness_score, multiplier)]>>
       IN entry \o UserEntries(Tail(cluster_ids), weight_mods, user_wepcc, multiplier)

SumScores_First(entries) ==
  IF entries = <<>> THEN 0 ELSE Head(entries).score

RECURSIVE SumScores(_)
SumScores(entries) ==
  IF entries = <<>> THEN 0 ELSE Head(entries).score + SumScores(Tail(entries))

\* gather_final_results, lines 534-548 and 556-569: the try blocks catch
\* json.JSONDecodeError only, so the exception of line 537 or 558 leaves the function
RaisesUncaught(cluster_shadow_coverage, wepcc_results) ==
  \E user_id \in DOMAIN cluster_shadow_coverage :
    \E cluster_id \in DOMAIN wepcc_results[user_id] :
      LET pj == wepcc_results[user_id][cluster_id].persuasiveness_justification
      IN pj.json /\ ~pj.numeric

\* gather_final_results left by an exception: nothing is returned
GatherRaised ==
  [raised |-> TRUE, aggregated_scores |-> EmptyDict, addressed_clusters |-> EmptyDict,
   unaddressed_clusters |-> EmptyDict, results |-> <<>>]

\* gather_final_results, lines 519-578
gather_final_results(cluster_shadow_coverage, wepcc_results, multiplier) ==
  IF RaisesUncaught(cluster_shadow_coverage, wepcc_results) THEN GatherRaised ELSE
  LET entries(user_id) ==
        LET weight_mods == cluster_shadow_coverage[user_id]
            addressed == UserEntries(KeysOf(DOMAIN weight_mods), weight_mods,
                                     wepcc_results[user_id], multiplier)
            unaddressed == UserEntries(KeysOf(DOMAIN wepcc_results[user_id] \ DOMAIN weight_mods),
                                       weight_mods, wepcc_results[user_id], multiplier)
        IN addressed \o unaddressed
      user_ids == KeysOf(DOMAIN cluster_shadow_coverage)
  IN [raised |-> FALSE,
      aggregated_scores |->
        [u \in DOMAIN cluster_shadow_coverage |-> SumScores(entries(u))],
      addressed_clusters |->
        [u \in DOMAIN cluster_shadow_coverage |->
           SelectSeq(entries(u), LAMBDA e : e.type = "addressed")],
      unaddressed_clusters |->
        [u \in DOMAIN cluster_shadow_coverage |->
           SelectSeq(entries(u), LAMBDA e : e.type = "unaddressed")],
      results |->
        [i \in DOMAIN user_ids |->
           [user |-> user_ids[i], clusters |-> entries(user_ids[i]),
            total_score |-> SumScores(entries(user_ids[i]))]]]

\* ---------------------------------------------------------------- integrate
\* jwt.decode(token, secret): a token is modelled by whether it verifies and by
\* its payload; decoded_token.get("user_id", "") is "" when the field is absent.
InvalidToken == [valid |-> FALSE, user_id |-> "", session_id |-> ""]

\* the tokens presented: u1 takes part in both sessions, u2 in s1 only
Tokens ==
  {InvalidToken}
    \cup {t \in [valid : {TRUE}, user_id : Users \cup {""}, session_id : Sessions \cup {""}] :
            ~(t.user_id = "u2" /\ t.session_id = "s2")}

IdsMissing_OnlyUser(user_id, session_id) ==
  user_id = ""

IdsMissing(user_id, session_id) ==
  user_id = "" \/ session_id = ""

integrate_returns_early(token) ==
  ~token.valid \/ IdsMissing(token.user_id, token.session_id)

\* payload["message"]: the entry that aggregate_user_messages reads as
\* message['data']['user_id'] and message['data']['content']
Message(user_id, content) == [user_id |-> user_id, content |-> content]

history_append_Front(message_history, message) ==
  <<message>> \o message_history

\* integrate, line 285: message_history.append(message)
history_append(message_history, message) ==
  Append(message_history, message)

get_ontology(user_id, session_id, message) ==
  <<user_id, session_id, message.content>>

ResetTask(id) == [type |-> "reset", id |-> id]

ReflectTask(nonce, id) ==
  [type |-> "check_and_reflect",
   session_id |-> generations[nonce].session_id,
   user_id |-> generations[nonce].user_id,
   generation_nonce |-> nonce,
   id |-> id]

NoTask == [type |-> "none", id |-> 0]

add_task(queue, task) == Append(queue, task)

QueueHasRoom_One(queue) ==
  Len(queue) < 1

\* __init__, line 158: Queue() has no maxsize, so put never waits for room
QueueHasRoom(queue) ==
  TRUE

LoopIdle == [pc |-> "idle", nonce |-> None]

\* integrate, lines 242-264, when it returns before touching anything
IntegrateBail(token) ==
  /\ loop.pc = "idle"
  /\ calls < MaxSubmits
  /\ integrate_returns_early(token)
  /\ calls' = calls + 1
  /\ UNCHANGED <<app_state, task_queue, current_generation, generations, loop, cons, co, resets, puts, fn>>

\* integrate, lines 242-290: ontology, message history, fresh nonce
IntegrateIngest(token, content) ==
  /\ loop.pc = "idle"
  /\ calls < MaxSubmits
  /\ ~integrate_returns_early(token)
  /\ LET user_id == token.user_id
         session_id == token.session_id
         message == Message(user_id, content)
         message_history == get_value(app_state, KeyMessageHistory(session_id), <<>>)
         prior_ontology == get_value(app_state, KeyPriorOntology(session_id), <<>>)
         current_ontology == get_ontology(user_id, session_id, message)
         state1 == set_state(app_state, KeyPriorOntologyWritten(session_id),
                             Append(prior_ontology, current_ontology))
         state2 == set_value(state1, KeyMessageHistory(session_id),
                             history_append(message_history, message))
     IN /\ app_state' = state2
        /\ generations' = Append(generations, [session_id |-> session_id, user_id |-> user_id])
        /\ loop' = [pc |-> "put_reset", nonce |-> Len(generations) + 1]
  /\ calls' = calls + 1
  /\ UNCHANGED <<task_queue, current_generation, cons, co, resets, puts, fn>>

\* integrate, line 292: self.stop_all_reflect_tasks()
IntegratePutReset ==
  /\ loop.pc = "put_reset"
  /\ QueueHasRoom(task_queue)
  /\ task_queue' = add_task(task_queue, ResetTask(puts + 1))
  /\ puts' = puts + 1
  /\ loop' = [loop EXCEPT !.pc = "put_task"]
  /\ UNCHANGED <<app_state, current_generation, generations, cons, co, calls, resets, fn>>

\* integrate, lines 294-303: self.add_task({'type': 'check_and_reflect', ...}); return
IntegratePutTask ==
  /\ loop.pc = "put_task"
  /\ QueueHasRoom(task_queue)
  /\ task_queue' = add_task(task_queue, ReflectTask(loop.nonce, puts + 1))
  /\ puts' = puts + 1
  /\ loop' = LoopIdle
  /\ UNCHANGED <<app_state, current_generation, generations, cons, co, calls, resets, fn>>

\* stop_all_reflect_tasks called on its own: the reset request
StopAllReflectTasks ==
  /\ resets < MaxResets
  /\ QueueHasRoom(task_queue)
  /\ task_queue' = add_task(task_queue, ResetTask(puts + 1))
  /\ puts' = puts + 1
  /\ resets' = resets + 1
  /\ UNCHANGED <<app_state, current_generation, generations, loop, cons, co, calls, fn>>

\* ---------------------------------------------------------------- process_tasks
ConsIdle == [pc |-> "get", task |-> NoTask, pending |-> <<>>]

ConsumerFree_Always == TRUE

\* the one consumer thread is at task_queue.get() only between two tasks
ConsumerFree == cons.pc = "get"

\* process_tasks, lines 177-181: task = self.task_queue.get(); dispatch on task['type']
ProcessTasksGet ==
  /\ ConsumerFree
  /\ task_queue # <<>>
  /\ task_queue' = Tail(task_queue)
  /\ cons' = [pc |-> IF Head(task_queue).type = "reset" THEN "drain" ELSE "execute",
              task |-> Head(task_queue),
              pending |-> IF Head(task_queue).type = "reset" THEN Tail(task_queue) ELSE <<>>]
  /\ UNCHANGED <<app_state, current_generation, generations, loop, co, calls, resets, puts, fn>>

QueueDrained_Always == TRUE

\* reset_processing_queue, line 186: self.task_queue.empty()
QueueDrained == task_queue = <<>>

\* reset_processing_queue, lines 186-188: one turn of the while loop
ResetDrain ==
  /\ cons.pc = "drain"
  /\ ~QueueDrained
  /\ task_queue' = Tail(task_queue)
  /\ UNCHANGED <<app_state, current_generation, generations, loop, cons, co, calls, resets, puts, fn>>

\* reset_processing_queue, line 186: the loop sees task_queue.empty()
ResetDrainExit ==
  /\ cons.pc = "drain"
  /\ QueueDrained
  /\ cons' = [cons EXCEPT !.pc = "reset_generation"]
  /\ UNCHANGED <<app_state, task_queue, current_generation, generations, loop, co,
                 calls, resets, puts, fn>>

\* reset_processing_queue, lines 190-191: self.current_generation = None
ResetGeneration ==
  /\ cons.pc = "reset_generation"
  /\ current_generation' = None
  /\ cons' = [cons EXCEPT !.pc = "task_done"]
  /\ UNCHANGED <<app_state, task_queue, generations, loop, co, calls, resets, puts, fn>>

\* process_tasks, line 182: self.task_queue.task_done(), back to get()
TaskDone ==
  /\ cons.pc = "task_done"
  /\ cons' = ConsIdle
  /\ UNCHANGED <<app_state, task_queue, current_generation, generations, loop, co,
                 calls, resets, puts, fn>>

\* ---------------------------------------------------------------- execute_task
CoNone ==
  [pc |-> "none", session_id |-> "", user_messages |-> EmptyDict,
   clusters |-> EmptyDict, updated_clusters |-> EmptyDict,
   wepcc_results |-> EmptyDict, cluster_shadow_coverage |-> EmptyDict, final |-> EmptyDict,
   sent |-> <<>>, committed |-> FALSE, started |-> 0]

Finished == {"halted", "returned", "completed"}
Running == {"start", "checkpoint1", "diff", "checkpoint2", "wepcc", "match", "gather", "store"}

\* execute_task, lines 195-201, as written: check_and_reflect is an async function,
\* so the call at line 197 makes a coroutine object and returns; nothing awaits it
ExecuteTask ==
  /\ cons.pc = "execute"
  /\ current_generation' = cons.task.generation_nonce
  /\ co' = [co EXCEPT ![cons.task.generation_nonce] =
              [CoNone EXCEPT !.pc = "created", !.session_id = cons.task.session_id,
                             !.started = puts]]
  /\ cons' = [cons EXCEPT !.pc = "task_done"]
  /\ UNCHANGED <<app_state, task_queue, generations, loop, calls, resets, puts, fn>>

\* execute_task, lines 195-197, with the coroutine of line 197 run to completion on
\* the consumer thread before execute_task goes on
ExecuteTaskRun ==
  /\ cons.pc = "execute"
  /\ current_generation' = cons.task.generation_nonce
  /\ co' = [co EXCEPT ![cons.task.generation_nonce] =
              [CoNone EXCEPT !.pc = "start", !.session_id = cons.task.session_id,
                             !.started = puts]]
  /\ cons' = [cons EXCEPT !.pc = "reflect"]
  /\ UNCHANGED <<app_state, task_queue, generations, loop, calls, resets, puts, fn>>

\* execute_task, line 201: check_and_reflect has returned
ReflectReturn ==
  /\ cons.pc = "reflect"
  /\ co[cons.task.generation_nonce].pc \in Finished
  /\ cons' = [cons EXCEPT !.pc = "task_done"]
  /\ UNCHANGED <<app_state, task_queue, current_generation, generations, loop, co,
                 calls, resets, puts, fn>>

\* the coroutine object of line 197 awaited by the request-handling event loop
AwaitReflect(n) ==
  /\ co[n].pc = "created"
  /\ co' = [co EXCEPT ![n].pc = "start"]
  /\ UNCHANGED <<app_state, task_queue, current_generation, generations, loop, cons,
                 calls, resets, puts, fn>>

\* ---------------------------------------------------------------- check_and_reflect
check_generation_halting_NotNone(generation_nonce) ==
  current_generation # None

\* check_generation_halting, lines 339-343
check_generation_halting(generation_nonce) ==
  current_generation # None /\ current_generation # generation_nonce

\* broadcast_to_websocket_group, lines 335-337, on a list of websockets: each is
\* [id, open], and send_json on a websocket that is not open raises.  The loop has
\* no try: the first exception ends it and leaves the caller as well.
RECURSIVE broadcast_to_websocket_group(_, _)
broadcast_to_websocket_group(websocket_group, json_message) ==
  IF websocket_group = <<>> THEN [delivered |-> <<>>, raised |-> FALSE]
  ELSE IF ~Head(websocket_group).open THEN [delivered |-> <<>>, raised |-> TRUE]
  ELSE LET rest == broadcast_to_websocket_group(Tail(websocket_group), json_message)
       IN [delivered |-> <<[to |-> Head(websocket_group).id, message |-> json_message]>>
                           \o rest.delivered,
           raised |-> rest.raised]

\* broadcast_to_websocket_group, lines 335-337: the message goes to the session's group
broadcast(sent, session_id, json_message) ==
  Append(sent, [to |-> session_id, message |-> json_message])

\* check_and_reflect, lines 361-381: history, clustering, initial_clusters broadcast
ReflectClusters(n) ==
  /\ co[n].pc = "start"
  /\ LET session_id == co[n].session_id
         message_history == get_value(app_state, KeyMessageHistory(session_id), <<>>)
         user_messages == aggregate_user_messages(message_history)
         clusters == cluster_messages(user_messages, n, session_id)
     IN co' = [co EXCEPT ![n].user_messages = user_messages,
                         ![n].clusters = clusters, ![n].pc = "checkpoint1",
                         ![n].sent = broadcast(@, session_id,
                            [status |-> "initial_clusters", clusters |-> clusters,
                             generation |-> n])]
  /\ UNCHANGED <<app_state, task_queue, current_generation, generations, loop, cons,
                 calls, resets, puts, fn>>

\* check_and_reflect, lines 382-383
ReflectCheckpoint1(n) ==
  /\ co[n].pc = "checkpoint1"
  /\ co' = [co EXCEPT ![n].pc = IF check_generation_halting(n) THEN "halted" ELSE "diff"]
  /\ UNCHANGED <<app_state, task_queue, current_generation, generations, loop, cons,
                 calls, resets, puts, fn>>

\* check_and_reflect, lines 386-396: diff, store of previous_clusters, updated_clusters broadcast
ReflectDiff(n) ==
  /\ co[n].pc = "diff"
  /\ LET session_id == co[n].session_id
         previous_clusters == get_value(app_state, KeyPreviousClusters(session_id), EmptyDict)
         updated_clusters == incremental_clustering(co[n].clusters, previous_clusters)
     IN /\ app_state' = set_value(app_state, KeyPreviousClusters(session_id), co[n].clusters)
        /\ co' = [co EXCEPT ![n].updated_clusters = updated_clusters, ![n].pc = "checkpoint2",
                            ![n].committed = @ \/ app_state' # app_state,
                            ![n].sent = broadcast(@, session_id,
                               [status |-> "updated_clusters", clusters |-> updated_clusters,
                                generation |-> n])]
  /\ UNCHANGED <<task_queue, current_generation, generations, loop, cons, calls, resets, puts, fn>>

\* check_and_reflect, lines 397-398
ReflectCheckpoint2(n) ==
  /\ co[n].pc = "checkpoint2"
  /\ co' = [co EXCEPT ![n].pc = IF check_generation_halting(n) THEN "halted" ELSE "wepcc"]
  /\ UNCHANGED <<app_state, task_queue, current_generation, generations, loop, cons,
                 calls, resets, puts, fn>>

InsufficientData_Never(clusters) ==
  FALSE

\* check_and_reflect, lines 418-420: the test for too few participants or clusters
InsufficientData(clusters) ==
  \/ Cardinality(DOMAIN clusters) < 2
  \/ \E user_id \in DOMAIN clusters : Cardinality(DOMAIN clusters[user_id]) < 1

\* check_and_reflect, lines 400-420: wepcc_cluster, then the insufficient-data return.
\* The check at line 409 is inside report_wepcc_result, whose coroutine never runs.
ReflectWepcc(n) ==
  /\ co[n].pc = "wepcc"
  /\ co' = [co EXCEPT ![n].wepcc_results = wepcc_cluster(co[n].updated_clusters),
                      ![n].pc = IF InsufficientData(co[n].clusters) THEN "returned" ELSE "match"]
  /\ UNCHANGED <<app_state, task_queue, current_generation, generations, loop, cons,
                 calls, resets, puts, fn>>

\* check_and_reflect, lines 423-437: cross-match and fold
ReflectMatch(n) ==
  /\ co[n].pc = "match"
  /\ co' = [co EXCEPT ![n].cluster_shadow_coverage =
                         get_cluster_shadow_coverage(
                           get_cluster_weight_modulator(co[n].wepcc_results, cutoff), cutoff),
                      ![n].pc = "gather"]
  /\ UNCHANGED <<app_state, task_queue, current_generation, generations, loop, cons,
                 calls, resets, puts, fn>>

\* check_and_reflect, lines 440-447: final aggregation and ranking; an exception
\* of gather_final_results leaves check_and_reflect too
ReflectGather(n) ==
  /\ co[n].pc = "gather"
  /\ co' = [co EXCEPT ![n].final =
                         gather_final_results(co[n].cluster_shadow_coverage, co[n].wepcc_results,
                                              unaddressed_score_multiplier),
                      ![n].pc = IF RaisesUncaught(co[n].cluster_shadow_coverage,
                                                  co[n].wepcc_results)
                                THEN "raised" ELSE "store"]
  /\ UNCHANGED <<app_state, task_queue, current_generation, generations, loop, cons,
                 calls, resets, puts, fn>>

\* check_and_reflect, lines 449-456: the four set_state calls; return results
ReflectStore(n) ==
  /\ co[n].pc = "store"
  /\ app_state' =
       set_state(set_state(set_state(set_state(app_state,
         KeyWepccResults, co[n].wepcc_results),
         KeyAggregatedScores, co[n].final.aggregated_scores),
         KeyAddressedClusters, co[n].final.addressed_clusters),
         KeyUnaddressedClusters, co[n].final.unaddressed_clusters)
  /\ co' = [co EXCEPT ![n].pc = "completed", ![n].committed = @ \/ app_state' # app_state]
  /\ UNCHANGED <<task_queue, current_generation, generations, loop, cons,
                 calls, resets, puts, fn>>

Reflect(n) ==
  \/ ReflectClusters(n)
  \/ ReflectCheckpoint1(n)
  \/ ReflectDiff(n)
  \/ ReflectCheckpoint2(n)
  \/ ReflectWepcc(n)
  \/ ReflectMatch(n)
  \/ ReflectGather(n)
  \/ ReflectStore(n)

\* ---------------------------------------------------------------- specifications
NoFn == [op |-> "none"]

\* a session that already holds four messages of three participants, whose
\* generations were all drained by later resets before they ran
PreloadedHistory ==
  <<Message("u1", 1), Message("u1", 2), Message("u2", 1), Message("u3", 1)>>

\* a second session that holds two messages of u3 and one of u1
PreloadedHistoryS2 ==
  <<Message("u3", 1), Message("u3", 2), Message("u1", 1)>>

InitialAppStates ==
  {EmptyState,
   set_value(set_value(EmptyState, KeyMessageHistory("s1"), PreloadedHistory),
             KeyMessageHistory("s2"), PreloadedHistoryS2)}

Init ==
  /\ app_state \in InitialAppStates
  /\ task_queue = <<>>
  /\ current_generation = None
  /\ generations = <<>>
  /\ loop = LoopIdle
  /\ cons = ConsIdle
  /\ co = [n \in 1..MaxSubmits |-> CoNone]
  /\ calls = 0
  /\ resets = 0
  /\ puts = 0
  /\ fn = NoFn

Submit ==
  \/ \E token \in Tokens : IntegrateBail(token)
  \/ \E token \in Tokens : \E content \in Contents : IntegrateIngest(token, content)
  \/ IntegratePutReset
  \/ IntegratePutTask
  \/ StopAllReflectTasks

Consumer ==
  \/ ProcessTasksGet
  \/ ResetDrain
  \/ ResetDrainExit
  \/ ResetGeneration
  \/ TaskDone

\* the program as written
Next ==
  \/ Submit
  \/ Consumer
  \/ ExecuteTask

Spec == Init /\ [][Next]_vars

\* the program with the call of line 197 running check_and_reflect to completion
NextRun ==
  \/ Submit
  \/ Consumer
  \/ ExecuteTaskRun
  \/ \E n \in 1..MaxSubmits : Reflect(n)
  \/ ReflectReturn

SpecRun == Init /\ [][NextRun]_vars

\* the program with the coroutine objects of line 197 awaited by the event loop,
\* next to the consumer thread
NextAwait ==
  \/ Submit
  \/ Consumer
  \/ ExecuteTask
  \/ \E n \in 1..MaxSubmits : AwaitReflect(n)
  \/ \E n \in 1..MaxSubmits : Reflect(n)

SpecAwait == Init /\ [][NextAwait]_vars

\* the stages of check_and_reflect that call a collaborator: cluster_sentences
\* (line 462), fetch_argument_definition (line 475), the embedding of
\* get_cluster_weight_modulator (line 432)
CollaboratorStages == {"start", "wepcc", "match"}

\* the collaborator called by the stage raises: the exception leaves check_and_reflect
CollaboratorRaises(n) ==
  /\ cons.pc = "reflect"
  /\ cons.task.generation_nonce = n
  /\ co[n].pc \in CollaboratorStages
  /\ co' = [co EXCEPT ![n].pc = "raised"]
  /\ UNCHANGED <<app_state, task_queue, current_generation, generations, loop, cons,
                 calls, resets, puts, fn>>

\* execute_task (line 197) and process_tasks (lines 176-182) hold no try: the
\* exception leaves both, and the consumer thread ends with it
ProcessTasksDies ==
  /\ cons.pc = "reflect"
  /\ co[cons.task.generation_nonce].pc = "raised"
  /\ cons' = [cons EXCEPT !.pc = "dead"]
  /\ UNCHANGED <<app_state, task_queue, current_generation, generations, loop, co,
                 calls, resets, puts, fn>>

\* SpecRun with collaborators that may fail
NextFail ==
  \/ NextRun
  \/ \E n \in 1..MaxSubmits : CollaboratorRaises(n)
  \/ ProcessTasksDies

SpecFail == Init /\ [][NextFail]_vars

\* ---------------------------------------------------------------- the singleton
\* Threads that each ask once for the controller, through get_instance() or
\* through the constructor.  fn holds the class attributes _instance and _lock,
\* the number of instances made (each with its queue and its consumer thread,
\* lines 158-161), and each thread's position and the instance it got.
MaxThreads == 3
Threads == 1..MaxThreads

ThreadIdle == [pc |-> "idle", got |-> None]

InitSingleton ==
  /\ fn = [op |-> "singleton", instance |-> None, lock |-> None, made |-> 0,
           th |-> [t \in Threads |-> ThreadIdle]]
  /\ app_state = EmptyState
  /\ task_queue = <<>>
  /\ current_generation = None
  /\ generations = <<>>
  /\ loop = LoopIdle
  /\ cons = ConsIdle
  /\ co = [n \in 1..MaxSubmits |-> CoNone]
  /\ calls = 0
  /\ resets = 0
  /\ puts = 0

SingletonFrame ==
  UNCHANGED <<app_state, task_queue, current_generation, generations, loop, cons, co,
              calls, resets, puts>>

\* __init__, lines 124-125: if DebateSimulator._instance is not None: raise
InitRefuses(instance) ==
  instance # None

\* a thread calls DebateSimulator.get_instance()
CallGetInstance(t) ==
  /\ fn.th[t].pc = "idle"
  /\ fn' = [fn EXCEPT !.th[t].pc = "check1"]
  /\ SingletonFrame

\* get_instance, line 117: if DebateSimulator._instance is None
GetInstanceCheck1(t) ==
  /\ fn.th[t].pc = "check1"
  /\ fn' = [fn EXCEPT !.th[t].pc = IF fn.instance = None THEN "acquire" ELSE "return"]
  /\ SingletonFrame

\* get_instance, line 118: with DebateSimulator._lock
GetInstanceAcquire(t) ==
  /\ fn.th[t].pc = "acquire"
  /\ fn.lock = None
  /\ fn' = [fn EXCEPT !.lock = t, !.th[t].pc = "check2"]
  /\ SingletonFrame

\* get_instance, line 119: the second test, under the lock
GetInstanceCheck2(t) ==
  /\ fn.th[t].pc = "check2"
  /\ fn' = [fn EXCEPT !.th[t].pc = IF fn.instance = None THEN "init" ELSE "release"]
  /\ SingletonFrame

\* get_instance, line 120, right-hand side: DebateSimulator() runs __init__
GetInstanceInit(t) ==
  /\ fn.th[t].pc = "init"
  /\ IF InitRefuses(fn.instance)
     THEN fn' = [fn EXCEPT !.th[t].pc = "raised", !.lock = None]
     ELSE fn' = [fn EXCEPT !.made = @ + 1, !.th[t].got = fn.made + 1, !.th[t].pc = "assign"]
  /\ SingletonFrame

\* get_instance, line 120: DebateSimulator._instance = the new object
GetInstanceAssign(t) ==
  /\ fn.th[t].pc = "assign"
  /\ fn' = [fn EXCEPT !.instance = fn.th[t].got, !.th[t].pc = "release"]
  /\ SingletonFrame

\* get_instance, line 118: the with block ends
GetInstanceRelease(t) ==
  /\ fn.th[t].pc = "release"
  /\ fn' = [fn EXCEPT !.lock = None, !.th[t].pc = "return"]
  /\ SingletonFrame

\* get_instance, line 121: return DebateSimulator._instance
GetInstanceReturn(t) ==
  /\ fn.th[t].pc = "return"
  /\ fn' = [fn EXCEPT !.th[t].got = fn.instance, !.th[t].pc = "got"]
  /\ SingletonFrame

\* a thread calls DebateSimulator(): __init__, lines 123-161, makes the object
\* with its queue and consumer thread, and leaves _instance as it is
Constructor(t) ==
  /\ fn.th[t].pc = "idle"
  /\ IF InitRefuses(fn.instance)
     THEN fn' = [fn EXCEPT !.th[t].pc = "raised"]
     ELSE fn' = [fn EXCEPT !.made = @ + 1, !.th[t].got = fn.made + 1, !.th[t].pc = "constructed"]
  /\ SingletonFrame

NextSingleton ==
  \E t \in Threads :
    \/ CallGetInstance(t)
    \/ GetInstanceCheck1(t)
    \/ GetInstanceAcquire(t)
    \/ GetInstanceCheck2(t)
    \/ GetInstanceInit(t)
    \/ GetInstanceAssign(t)
    \/ GetInstanceRelease(t)
    \/ GetInstanceReturn(t)
    \/ Constructor(t)

SpecSingleton == InitSingleton /\ [][NextSingleton]_vars

\* ---------------------------------------------------------------- the /chat endpoint
\* api.py, lines 88-140: one connection of the /chat websocket. The state of
\* the connection lives in fn: the handler's position, the payload received,
\* the chunks collected, what send_json has sent, how often close() returned,
\* and whether the client is still connected.
MaxChunks == 2

\* a chunk is a string, here a sequence of characters; stream_chat may yield ""
ChunkValues == {<<>>, <<1>>, <<2>>}

\* the text the client sends: whether json.loads reads it, the keys it has, and
\* its "temperature" (absent, null, a number, or something float() refuses)
Temperatures == {"absent", "null", "number", "text"}

Payloads ==
  [json : BOOLEAN, message : BOOLEAN, message_history : BOOLEAN, temperature : Temperatures]

NoPayload == [json |-> FALSE, message |-> FALSE, message_history |-> FALSE, temperature |-> "absent"]

\* ''.join(text), lines 131 and 133
RECURSIVE Join(_)
Join(text) ==
  IF text = <<>> THEN <<>> ELSE Head(text) \o Join(Tail(text))

StartedStatus == [status |-> "started"]
GeneratingStatus(text) == [status |-> "generating", response |-> Join(text), completed |-> FALSE]
CompletedStatus(text) == [status |-> "completed", response |-> Join(text), completed |-> TRUE]
ErrorStatus == [status |-> "error", message |-> "Generation failed"]

InitChat ==
  /\ fn = [op |-> "chat", pc |-> "accept", open |-> TRUE, payload |-> NoPayload,
           text |-> <<>>, sent |-> <<>>, closed |-> 0]
  /\ app_state = EmptyState
  /\ task_queue = <<>>
  /\ current_generation = None
  /\ generations = <<>>
  /\ loop = LoopIdle
  /\ cons = ConsIdle
  /\ co = [n \in 1..MaxSubmits |-> CoNone]
  /\ calls = 0
  /\ resets = 0
  /\ puts = 0

ChatFrame ==
  UNCHANGED <<app_state, task_queue, current_generation, generations, loop, cons, co,
              calls, resets, puts>>

\* lines 96-110: payload["message"] and payload["message_history"] raise KeyError
\* when the key is absent, float(payload["temperature"]) raises on a value that
\* is not a number
ExtractRaises(payload) ==
  \/ ~payload.message
  \/ ~payload.message_history
  \/ payload.temperature = "text"

\* await websocket.send_json(message): the message is sent while the client is
\* connected; after the client has gone the call raises or returns without
\* effect, depending on the server underneath
send_json(message, next, raised) ==
  \/ /\ fn.open
     /\ fn' = [fn EXCEPT !.sent = Append(@, message), !.pc = next]
  \/ /\ ~fn.open
     /\ \E pc \in {next, raised} : fn' = [fn EXCEPT !.pc = pc]

\* await websocket.close(): as send_json, with the close counted when it is done
close(next, raised) ==
  \/ /\ fn.open
     /\ fn' = [fn EXCEPT !.closed = @ + 1, !.pc = next]
  \/ /\ ~fn.open
     /\ \E pc \in {next, raised} : fn' = [fn EXCEPT !.pc = pc]

\* the client goes away
ClientDisconnects ==
  /\ fn.op = "chat"
  /\ fn.open
  /\ fn.pc \notin {"returned", "raised"}
  /\ fn' = [fn EXCEPT !.open = FALSE]
  /\ ChatFrame

\* line 90: await websocket.accept()
ChatAccept ==
  /\ fn.op = "chat"
  /\ fn.pc = "accept"
  /\ fn' = [fn EXCEPT !.pc = "receive"]
  /\ ChatFrame

\* line 91: data = await websocket.receive_text(); raises when the client has gone
ChatReceive ==
  /\ fn.op = "chat"
  /\ fn.pc = "receive"
  /\ \/ /\ fn.open
        /\ \E payload \in Payloads : fn' = [fn EXCEPT !.payload = payload, !.pc = "loads"]
     \/ /\ ~fn.open
        /\ fn' = [fn EXCEPT !.pc = "raised"]
  /\ ChatFrame

\* line 92: payload = json.loads(data), outside any try
ChatLoads ==
  /\ fn.op = "chat"
  /\ fn.pc = "loads"
  /\ fn' = [fn EXCEPT !.pc = IF fn.payload.json THEN "send_started" ELSE "raised"]
  /\ ChatFrame

\* line 93
ChatSendStarted ==
  /\ fn.op = "chat"
  /\ fn.pc = "send_started"
  /\ send_json(StartedStatus, "extract", "raised")
  /\ ChatFrame

\* lines 94-125: the fields of the payload are read, outside any try
ChatExtract ==
  /\ fn.op = "chat"
  /\ fn.pc = "extract"
  /\ fn' = [fn EXCEPT !.pc = IF ExtractRaises(fn.payload) THEN "raised" ELSE "stream"]
  /\ ChatFrame

\* lines 129-130: stream_chat yields a chunk, text.append(chunk)
ChatStreamChunk ==
  /\ fn.op = "chat"
  /\ fn.pc = "stream"
  /\ Len(fn.text) < MaxChunks
  /\ \E chunk \in ChunkValues :
       fn' = [fn EXCEPT !.text = Append(@, chunk), !.pc = "send_generating"]
  /\ ChatFrame

\* line 129: stream_chat raises
ChatStreamRaises ==
  /\ fn.op = "chat"
  /\ fn.pc = "stream"
  /\ fn' = [fn EXCEPT !.pc = "except"]
  /\ ChatFrame

\* line 129: stream_chat is exhausted
ChatStreamEnds ==
  /\ fn.op = "chat"
  /\ fn.pc = "stream"
  /\ fn' = [fn EXCEPT !.pc = "send_completed"]
  /\ ChatFrame

\* lines 131-132, inside the try
ChatSendGenerating ==
  /\ fn.op = "chat"
  /\ fn.pc = "send_generating"
  /\ send_json(GeneratingStatus(fn.text), "stream", "except")
  /\ ChatFrame

\* lines 133-134, inside the try
ChatSendCompleted ==
  /\ fn.op = "chat"
  /\ fn.pc = "send_completed"
  /\ send_json(CompletedStatus(fn.text), "close", "except")
  /\ ChatFrame

\* lines 135-136: except Exception: send the error status
ChatSendError ==
  /\ fn.op = "chat"
  /\ fn.pc = "except"
  /\ send_json(ErrorStatus, "close_error", "raised")
  /\ ChatFrame

\* lines 137-138: close and return inside the except block
ChatCloseAfterError ==
  /\ fn.op = "chat"
  /\ fn.pc = "close_error"
  /\ close("returned", "raised")
  /\ ChatFrame

\* line 140
ChatClose ==
  /\ fn.op = "chat"
  /\ fn.pc = "close"
  /\ close("returned", "raised")
  /\ ChatFrame

NextChat ==
  \/ ClientDisconnects
  \/ ChatAccept
  \/ ChatReceive
  \/ ChatLoads
  \/ ChatSendStarted
  \/ ChatExtract
  \/ ChatStreamChunk
  \/ ChatStreamRaises
  \/ ChatStreamEnds
  \/ ChatSendGenerating
  \/ ChatSendCompleted
  \/ ChatSendError
  \/ ChatCloseAfterError
  \/ ChatClose

SpecChat == InitChat /\ [][NextChat]_vars

\* ---------------------------------------------------------------- functions applied on their own
Sentences == {1, 2, 3}

SeqsUpTo(S, n) == UNION {[1..k -> S] : k \in 0..n}

\* a list of sentences S and a permutation P of it
HashInputs ==
  UNION {{[op |-> "generate_hash", S |-> s, P |-> [i \in DOMAIN s |-> s[p[i]]],
           done |-> FALSE, out |-> <<>>] : p \in Permutations(DOMAIN s)} :
         s \in SeqsUpTo(Sentences, MaxLen)}

ClusterIds == {0, 1}
SentenceLists == {<<1, 2>>, <<2, 1>>, <<1, 1>>}

\* the clusterings of one generation: participant -> cluster id -> Cluster
Clusterings(generation) ==
  LET UserClusterings(user_id) ==
        UNION {{[cluster_id \in D |-> Cluster(cluster_id, f[cluster_id], user_id, generation, "s1")] :
                f \in [D -> SentenceLists]} : D \in SUBSET ClusterIds}
  IN UNION {{[user_id \in U |-> g[user_id]] :
             g \in [U -> UNION {UserClusterings(u) : u \in U}]} : U \in SUBSET Users}

WellKeyed(clusters) ==
  \A u \in DOMAIN clusters : \A c \in DOMAIN clusters[u] : clusters[u][c].user_id = u

DiffInputs ==
  [op : {"incremental_clustering"},
   clusters : {x \in Clusterings(2) : WellKeyed(x)},
   previous_clusters : {x \in Clusterings(1) : WellKeyed(x)},
   done : {FALSE}, out : {<<>>}]

\* the messages of the participants of a session: participant -> list of sentences
UserMessageInputs ==
  UNION {[U -> SeqsUpTo(Sentences, MaxLen) \ {<<>>}] : U \in SUBSET Users \ {{}}}

ClusterInputs ==
  {[op |-> "cluster_messages", user_messages |-> um, done |-> FALSE, out |-> <<>>] :
   um \in UserMessageInputs}

\* argument records: the texts of claims and counterclaims, and persuasiveness
\* justifications that parse (with their score) or do not
Texts == {<<1>>, <<1, 2>>, <<3>>}

Record(justification, claim, counterclaim) ==
  [warrant |-> <<1>>, evidence |-> <<1>>, persuasiveness_justification |-> justification,
   claim |-> claim, counterclaim |-> counterclaim]

Records ==
  {Record(pj, cl, cc) : pj \in {Justification(TRUE, 80), Justification(FALSE, 0)},
                        cl \in Texts, cc \in Texts}

\* wepcc_results: u1 with one or two clusters, u2 with one
WepccInputs ==
  {[u \in Users |-> IF u = "u1" THEN a ELSE b] :
   a \in UNION {[D -> Records] : D \in {{0}, {0, 1}}}, b \in [{0} -> Records]}

Cutoffs == {50, 75}

CrossMatchInputs ==
  {[op |-> "get_cluster_weight_modulator", wepcc_results |-> w, cutoff |-> c,
    done |-> FALSE, out |-> <<>>] : w \in WepccInputs, c \in Cutoffs}

\* the steps of lines 432-443 on one wepcc_results, with the cutoff and the
\* multiplier of lines 423 and 426
ScoringInputs ==
  {[op |-> "scoring", wepcc_results |-> w, done |-> FALSE, out |-> <<>>] : w \in WepccInputs}

\* a modulator list L, a permutation P of it, and a cutoff in [0,1)
ModulatorValues == {20, 50, 90, 100}
FoldCutoffs == {0, 50}

FoldInputs ==
  UNION {{[op |-> "get_cluster_shadow_coverage", L |-> l, P |-> [i \in DOMAIN l |-> l[p[i]]],
           cutoff |-> c, done |-> FALSE, out |-> <<>>] :
          p \in Permutations(DOMAIN l), c \in FoldCutoffs} :
         l \in SeqsUpTo(ModulatorValues, MaxLen)}

\* shadow coverages and argument records given to gather_final_results: u1 with
\* two clusters, and sometimes u2 with one
Scores == {0, 50, 80}
Coverages == {1, 50, 100}
Multipliers == {101, 250}

GatherRecords ==
  {Record(Justification(parses, score), <<1>>, <<3>>) : parses \in BOOLEAN, score \in Scores}
    \cup {Record(JustificationWithoutScore, <<1>>, <<3>>)}

GatherWepcc ==
  LET one == [{"u1"} -> [{0, 1} -> GatherRecords]]
  IN one \cup {[u \in Users |-> IF u = "u1" THEN w["u1"]
                                ELSE [c \in {0} |-> Record(Justification(TRUE, 80), <<1>>, <<3>>)]] :
               w \in one}

\* one coverage dict per participant of w, over some of that participant's clusters
CoveragesOf(w) ==
  LET UserCoverages(u) ==
        IF u = "u1" THEN UNION {[D -> Coverages] : D \in SUBSET DOMAIN w[u]}
        ELSE {EmptyDict, [c \in {0} |-> 50]}
  IN {f \in [DOMAIN w -> UNION {UserCoverages(u) : u \in DOMAIN w}] :
        \A u \in DOMAIN w : f[u] \in UserCoverages(u)}

\* CoveragesOf(w) depends on the participants of w only
GatherInputs ==
  UNION {[op : {"gather_final_results"},
          cluster_shadow_coverage : CoveragesOf(CHOOSE w \in GatherWepcc : DOMAIN w = U),
          wepcc_results : {w \in GatherWepcc : DOMAIN w = U},
          multiplier : Multipliers, done : {FALSE}, out : {<<>>}] :
         U \in {DOMAIN w : w \in GatherWepcc}}

\* the websocket group of a session: observers 1..k, each open or closed
WebsocketGroups ==
  UNION {{[i \in 1..k |-> [id |-> i, open |-> o[i]]] : o \in [1..k -> BOOLEAN]} :
         k \in 0..MaxLen}

BroadcastInputs ==
  {[op |-> "broadcast_to_websocket_group", websocket_group |-> g,
    json_message |-> [status |-> "initial_clusters", generation |-> n],
    done |-> FALSE, out |-> <<>>] : g \in WebsocketGroups, n \in 1..MaxSubmits}

\* the messages of a session and the nonce of the generation that reads them
WepccClusterInputs ==
  {[op |-> "wepcc_cluster", user_messages |-> um, generation |-> n,
    done |-> FALSE, out |-> <<>>] : um \in UserMessageInputs, n \in 1..MaxSubmits}

\* a full clustering with enough data for cross-match, and a previous clustering
ReflectInputs ==
  [op : {"check_and_reflect"},
   clusters : {x \in Clusterings(2) : WellKeyed(x) /\ ~InsufficientData(x)},
   previous_clusters : {x \in Clusterings(1) : WellKeyed(x)},
   done : {FALSE}, out : {<<>>}]

FnInputs ==
  {HashInputs, DiffInputs, ClusterInputs, CrossMatchInputs, ScoringInputs, FoldInputs,
   GatherInputs, BroadcastInputs, WepccClusterInputs, ReflectInputs}

InitFn ==
  /\ \E inputs \in FnInputs : fn \in inputs
  /\ app_state = EmptyState
  /\ task_queue = <<>>
  /\ current_generation = None
  /\ generations = <<>>
  /\ loop = LoopIdle
  /\ cons = ConsIdle
  /\ co = [n \in 1..MaxSubmits |-> CoNone]
  /\ calls = 0
  /\ resets = 0
  /\ puts = 0

FnFrame ==
  UNCHANGED <<app_state, task_queue, current_generation, generations, loop, cons, co,
              calls, resets, puts>>

\* Cluster.generate_hash applied to S and to P
ApplyGenerateHash ==
  /\ fn.op = "generate_hash"
  /\ ~fn.done
  /\ fn' = [fn EXCEPT !.done = TRUE, !.out = <<generate_hash(fn.S), generate_hash(fn.P)>>]
  /\ FnFrame

\* incremental_clustering applied to a new and a previous clustering
ApplyIncrementalClustering ==
  /\ fn.op = "incremental_clustering"
  /\ ~fn.done
  /\ fn' = [fn EXCEPT !.done = TRUE,
                      !.out = incremental_clustering(fn.clusters, fn.previous_clusters)]
  /\ FnFrame

\* cluster_messages applied to the same messages in two generations
ApplyClusterMessages ==
  /\ fn.op = "cluster_messages"
  /\ ~fn.done
  /\ fn' = [fn EXCEPT !.done = TRUE,
                      !.out = <<cluster_messages(fn.user_messages, 1, "s1"),
                                cluster_messages(fn.user_messages, 2, "s1")>>]
  /\ FnFrame

\* get_cluster_weight_modulator applied to argument records and a cutoff
ApplyCrossMatch ==
  /\ fn.op = "get_cluster_weight_modulator"
  /\ ~fn.done
  /\ fn' = [fn EXCEPT !.done = TRUE,
                      !.out = get_cluster_weight_modulator(fn.wepcc_results, fn.cutoff)]
  /\ FnFrame

\* get_cluster_shadow_coverage applied to a participant whose cluster 0 has the
\* modulator list L and whose cluster 1 has the list P
ApplyShadowCoverage ==
  /\ fn.op = "get_cluster_shadow_coverage"
  /\ ~fn.done
  /\ fn' = [fn EXCEPT !.done = TRUE,
                      !.out = get_cluster_shadow_coverage(
                                [u \in {"u1"} |-> [c \in {0, 1} |-> IF c = 0 THEN fn.L ELSE fn.P]],
                                fn.cutoff)]
  /\ FnFrame

\* gather_final_results applied to shadow coverages, argument records and a multiplier
ApplyGatherFinalResults ==
  /\ fn.op = "gather_final_results"
  /\ ~fn.done
  /\ fn' = [fn EXCEPT !.done = TRUE,
                      !.out = gather_final_results(fn.cluster_shadow_coverage, fn.wepcc_results,
                                                   fn.multiplier)]
  /\ FnFrame

\* check_and_reflect, lines 423-443, applied to argument records
ApplyScoring ==
  /\ fn.op = "scoring"
  /\ ~fn.done
  /\ LET cluster_weight_modulator == get_cluster_weight_modulator(fn.wepcc_results, cutoff)
         cluster_shadow_coverage == get_cluster_shadow_coverage(cluster_weight_modulator, cutoff)
         final == gather_final_results(cluster_shadow_coverage, fn.wepcc_results,
                                       unaddressed_score_multiplier)
     IN fn' = [fn EXCEPT !.done = TRUE,
                         !.out = [cluster_weight_modulator |-> cluster_weight_modulator,
                                  cluster_shadow_coverage |-> cluster_shadow_coverage,
                                  final |-> final]]
  /\ FnFrame

\* broadcast_to_websocket_group applied to a group and an event
ApplyBroadcast ==
  /\ fn.op = "broadcast_to_websocket_group"
  /\ ~fn.done
  /\ fn' = [fn EXCEPT !.done = TRUE,
                      !.out = broadcast_to_websocket_group(fn.websocket_group, fn.json_message)]
  /\ FnFrame

\* check_and_reflect, lines 370 and 415: wepcc_cluster applied to the clusters of
\* a generation, and the events of the report_wepcc_result calls it makes
ApplyWepccCluster ==
  /\ fn.op = "wepcc_cluster"
  /\ ~fn.done
  /\ LET clusters == cluster_messages(fn.user_messages, fn.generation, "s1")
     IN fn' = [fn EXCEPT !.done = TRUE,
                         !.out = [wepcc_results |-> wepcc_cluster(clusters),
                                  reports |-> wepcc_reports(clusters)]]
  /\ FnFrame

\* check_and_reflect, lines 386-443, applied to a full clustering and the
\* previous clustering of the session: diff, extraction, cross-match, fold, aggregation
ApplyReflect ==
  /\ fn.op = "check_and_reflect"
  /\ ~fn.done
  /\ LET updated_clusters == incremental_clustering(fn.clusters, fn.previous_clusters)
         wepcc_results == wepcc_cluster(updated_clusters)
         cluster_weight_modulator == get_cluster_weight_modulator(wepcc_results, cutoff)
         cluster_shadow_coverage == get_cluster_shadow_coverage(cluster_weight_modulator, cutoff)
         final == gather_final_results(cluster_shadow_coverage, wepcc_results,
                                       unaddressed_score_multiplier)
     IN fn' = [fn EXCEPT !.done = TRUE,
                         !.out = [updated_clusters |-> updated_clusters,
                                  wepcc_results |-> wepcc_results,
                                  cluster_weight_modulator |-> cluster_weight_modulator,
                                  final |-> final]]
  /\ FnFrame

NextFn ==
  \/ ApplyGenerateHash
  \/ ApplyIncrementalClustering
  \/ ApplyClusterMessages
  \/ ApplyCrossMatch
  \/ ApplyShadowCoverage
  \/ ApplyGatherFinalResults
  \/ ApplyScoring
  \/ ApplyBroadcast
  \/ ApplyWepccCluster
  \/ ApplyReflect

SpecFn == InitFn /\ [][NextFn]_vars

\* ---------------------------------------------------------------- properties
Nonces == 1..MaxSubmits

Issued(n) == n <= Len(generations)

\* integrate has returned for generation n
Submitted(n) == Issued(n) /\ ~(loop.pc # "idle" /\ loop.nonce = n)

Superseded(n1) ==
  \E n2 \in Nonces :
    /\ n2 > n1
    /\ Submitted(n2)
    /\ generations[n2].session_id = generations[n1].session_id

TaskPending(n) ==
  \E i \in DOMAIN task_queue :
    task_queue[i].type = "check_and_reflect" /\ task_queue[i].generation_nonce = n

TaskTaken(n) ==
  \/ cons.task.type = "check_and_reflect" /\ cons.task.generation_nonce = n
  \/ co[n].pc # "none"

Checkpoints == {"checkpoint1", "checkpoint2"}

\* C1: once generation N2 of the same session has been submitted after N1, every
\* checkpoint the N1 task reaches halts it, and no step of the N1 task changes
\* the session state.
C1_MonotonicCancellation ==
  [][\A n1 \in Nonces :
       (Issued(n1) /\ Superseded(n1) /\ co'[n1] # co[n1]) =>
          /\ co[n1].pc \in Checkpoints => co'[n1].pc = "halted"
          /\ app_state' = app_state]_vars

\* C2: while submit S is the latest submit and no reset was requested on its own,
\* the task S enqueued is pending, taken by the consumer or executed: the reset
\* S enqueued ahead of it never removes it.
C2_SubmittedTaskNotLost ==
  \A n \in Nonces :
    (Submitted(n) /\ n = Len(generations) /\ resets = 0) => TaskPending(n) \/ TaskTaken(n)

\* C3: at most one check_and_reflect task is executing at any time.
C3_OneGenerationAtATime ==
  Cardinality({n \in Nonces : co[n].pc \in Running}) <= 1

C3_Witness ==
  \E n \in Nonces : \E m \in Nonces :
    co[n].pc \in Running /\ m # n /\ TaskPending(m)

\* a reset was put on the queue after the task of generation n began to execute
ResetRequestedDuring(n) ==
  \E i \in DOMAIN task_queue :
    task_queue[i].type = "reset" /\ task_queue[i].id > co[n].started

\* C4: once a reset is requested while generation G executes, G halts at its next
\* checkpoint and never commits final scores.
C4_ResetStopsGeneration ==
  [][\A n \in Nonces :
       (co[n].pc \in Running /\ ResetRequestedDuring(n) /\ co'[n] # co[n]) =>
          /\ co[n].pc \in Checkpoints => co'[n].pc = "halted"
          /\ co'[n].pc # "completed"]_vars

PendingIds == {cons.pending[i].id : i \in DOMAIN cons.pending}

\* every task that was pending when the reset was dequeued is gone from the queue
\* and no such generation task was executed
PendingDropped ==
  /\ \A i \in DOMAIN task_queue : task_queue[i].id \notin PendingIds
  /\ \A i \in DOMAIN cons.pending :
       cons.pending[i].type = "check_and_reflect" =>
         co[cons.pending[i].generation_nonce].pc = "none"

ResetEnds == cons.pc = "reset_generation" /\ cons'.pc = "task_done"

\* C5 as stated: when the consumer has processed a reset, every task pending at
\* its dequeue was removed unexecuted, current_generation is None and the queue
\* is empty.
C5_ResetLeavesQueueEmpty ==
  [][ResetEnds => PendingDropped' /\ current_generation' = None /\ task_queue' = <<>>]_vars

\* C5 amended: when the consumer has processed a reset, every task pending at its
\* dequeue was removed unexecuted, current_generation is None, and the queue holds
\* only tasks put after the reset was dequeued.
C5_ResetDropsPending ==
  [][ResetEnds => PendingDropped' /\ current_generation' = None]_vars

C5_Witness ==
  /\ cons.pc = "task_done"
  /\ cons.task.type = "reset"
  /\ \E i \in DOMAIN cons.pending : cons.pending[i].type = "check_and_reflect"
  /\ task_queue # <<>>

ClaimRefuses(token) ==
  ~token.valid \/ token.user_id = "" \/ token.session_id = ""

\* C6: an integrate call whose token is invalid, or whose user id or session id is
\* empty, changes nothing: history, ontology, queue, current_generation,
\* generations.
C6_InvalidSubmitIsNoOp ==
  [][\A token \in Tokens :
       (/\ ClaimRefuses(token)
        /\ \/ IntegrateBail(token)
           \/ \E content \in Contents : IntegrateIngest(token, content)) =>
          UNCHANGED <<app_state, task_queue, current_generation, generations, co, puts>>]_vars

C6_Witness ==
  calls > Len(generations) /\ Len(generations) > 0

\* the five places of a run where the claim puts a checkpoint: after the
\* initial_clusters broadcast, after the updated_clusters broadcast, after the
\* extraction, after cross-match and fold, before the final store
FiveCheckpoints == {"checkpoint1", "checkpoint2", "match", "gather", "store"}

\* C7: at each of the five checkpoints a task whose nonce differs from the
\* current nonce returns without executing any later stage.
C7_FiveCheckpoints ==
  [][\A n \in Nonces :
       (/\ co[n].pc \in FiveCheckpoints
        /\ current_generation # None
        /\ current_generation # n
        /\ co'[n] # co[n]) => co'[n].pc = "halted"]_vars

\* C8: a task that halted at a checkpoint has changed nothing in app_state.
C8_HaltedCommittedNothing ==
  \A n \in Nonces : co[n].pc = "halted" => ~co[n].committed

\* C9: generate_hash gives a list of sentences and every permutation of it the
\* same fingerprint.
C9_HashOrderIndependent ==
  (fn.op = "generate_hash" /\ fn.done) => fn.out[1] = fn.out[2]

C9_Witness ==
  fn.op = "generate_hash" /\ fn.done /\ fn.S # fn.P

\* a previous cluster of the participant with the same cluster id and fingerprint
HasSameInPrevious(previous, user_id, cluster) ==
  \E c \in DOMAIN previous[user_id] :
    /\ previous[user_id][c].cluster_id = cluster.cluster_id
    /\ previous[user_id][c].cluster_hash = cluster.cluster_hash

\* C10: incremental_clustering returns every cluster of a participant without a
\* previous clustering, otherwise exactly the clusters for which no previous
\* cluster with the same id has the same fingerprint; when every new cluster has
\* such a previous cluster the changed set is empty.
C10_IncrementalClustering ==
  (fn.op = "incremental_clustering" /\ fn.done) =>
    LET new == fn.clusters
        previous == fn.previous_clusters
        out == fn.out
    IN /\ DOMAIN out = DOMAIN new
       /\ \A u \in DOMAIN new :
            IF u \notin DOMAIN previous
            THEN out[u] = new[u]
            ELSE /\ DOMAIN out[u] =
                      {c \in DOMAIN new[u] : ~HasSameInPrevious(previous, u, new[u][c])}
                 /\ \A c \in DOMAIN out[u] : out[u][c] = new[u][c]
       /\ (\A u \in DOMAIN new : \A c \in DOMAIN new[u] :
             u \in DOMAIN previous /\ HasSameInPrevious(previous, u, new[u][c]))
          => \A u \in DOMAIN new : DOMAIN out[u] = {}

C10_Witness ==
  /\ fn.op = "incremental_clustering"
  /\ fn.done
  /\ \E u \in DOMAIN fn.clusters :
       /\ u \in DOMAIN fn.previous_clusters
       /\ DOMAIN fn.out[u] # {}
       /\ DOMAIN fn.out[u] # DOMAIN fn.clusters[u]
       /\ \E c \in DOMAIN fn.clusters[u] \ DOMAIN fn.out[u] :
            fn.clusters[u][c].sentences # fn.previous_clusters[u][c].sentences
  /\ \E u \in DOMAIN fn.clusters : u \notin DOMAIN fn.previous_clusters

\* ---------------------------------------------------------------- C11 .. C20
\* C11: every cluster that cluster_messages builds holds the sentences of its
\* group in its sentences field and has the hash of those sorted sentences as its
\* fingerprint; so the clusters of the same participant, cluster id and sentences
\* built in two generations have equal fingerprints.
C11_ClusterHoldsSentences ==
  (fn.op = "cluster_messages" /\ fn.done) =>
    \A user_id \in DOMAIN fn.out[1] : \A cluster_id \in DOMAIN fn.out[1][user_id] :
      LET group == cluster_sentences(fn.user_messages[user_id])[cluster_id]
          first == fn.out[1][user_id][cluster_id]
          second == fn.out[2][user_id][cluster_id]
      IN /\ first.sentences = group
         /\ second.sentences = group
         /\ first.cluster_hash = sha256_json(sorted(group))
         /\ first.cluster_hash = second.cluster_hash

\* the participants of the session of a run: the authors of its message history
Participants(user_messages) == DOMAIN user_messages

\* the claim's test for insufficient data, on the participants of the session
ClaimInsufficientData(user_messages, clusters) ==
  \/ Cardinality(Participants(user_messages)) < 2
  \/ \E user_id \in Participants(user_messages) :
       user_id \notin DOMAIN clusters \/ DOMAIN clusters[user_id] = {}

AfterInsufficientDataCheck == {"match", "gather", "store", "completed"}

\* C12: a generation of a session with fewer than 2 participants, or with a
\* participant who has zero clusters (one who sent a single message included),
\* runs no cross-match and no aggregation and stores no score.
C12_InsufficientDataAborts ==
  \A n \in Nonces :
    co[n].pc \in AfterInsufficientDataCheck =>
      ~ClaimInsufficientData(co[n].user_messages, co[n].clusters)

\* the clusters of the participants other than user_idA, as pairs <<participant, cluster id>>
OtherClusters(wepcc_results, user_idA) ==
  UNION {{<<user_idB, cluster_idB>> : cluster_idB \in DOMAIN wepcc_results[user_idB]} :
         user_idB \in DOMAIN wepcc_results \ {user_idA}}

Count(list, v) == Cardinality({i \in DOMAIN list : list[i] = v})

\* the claim's normalized value (similarity - cutoff) / (1 - cutoff)
ClaimNormalized(similarity, cut) == ((similarity - cut) * Scale) \div (Scale - cut)

\* C13: the modulator list of cluster A holds, for every cluster B of another
\* participant with similarity(A.counterclaim, B.claim) > cutoff, the value
\* (similarity - cutoff) / (1 - cutoff), which lies in (0,1], and nothing else:
\* nothing for a cluster of A's own participant, nothing for a similarity at or
\* below the cutoff; (A,B) and (B,A) are decided each on its own similarity.
C13_CrossMatch ==
  (fn.op = "get_cluster_weight_modulator" /\ fn.done) =>
    /\ DOMAIN fn.out = DOMAIN fn.wepcc_results
    /\ \A user_idA \in DOMAIN fn.wepcc_results :
         /\ DOMAIN fn.out[user_idA] = DOMAIN fn.wepcc_results[user_idA]
         /\ \A cluster_idA \in DOMAIN fn.wepcc_results[user_idA] :
              LET list == fn.out[user_idA][cluster_idA]
                  Similarity(B) == sim_score(fn.wepcc_results[user_idA][cluster_idA].counterclaim,
                                             fn.wepcc_results[B[1]][B[2]].claim)
                  hits == {B \in OtherClusters(fn.wepcc_results, user_idA) :
                             Similarity(B) > fn.cutoff}
                  values == {list[i] : i \in DOMAIN list}
                              \cup {ClaimNormalized(Similarity(B), fn.cutoff) : B \in hits}
              IN /\ Len(list) = Cardinality(hits)
                 /\ \A v \in values :
                      Count(list, v) = Cardinality({B \in hits :
                                          ClaimNormalized(Similarity(B), fn.cutoff) = v})
                 /\ \A i \in DOMAIN list : list[i] > 0 /\ list[i] <= Scale

\* cluster 0 of u1 has similarity 1 with a claim of u1's own cluster 1 and a
\* similarity equal to the cutoff with the claim of u2, and receives nothing,
\* while the cluster of u2 receives a value from a cluster of u1
C13_Witness ==
  /\ fn.op = "get_cluster_weight_modulator"
  /\ fn.done
  /\ DOMAIN fn.wepcc_results["u1"] = {0, 1}
  /\ sim_score(fn.wepcc_results["u1"][0].counterclaim, fn.wepcc_results["u1"][1].claim) = Scale
  /\ sim_score(fn.wepcc_results["u1"][0].counterclaim, fn.wepcc_results["u2"][0].claim) = fn.cutoff
  /\ fn.out["u1"][0] = <<>>
  /\ fn.out["u2"][0] # <<>>

FoldApplied == fn.op = "get_cluster_shadow_coverage" /\ fn.done

\* C14: for a non-empty modulator list with values in (0,1] and a cutoff in
\* [0,1), the coverage that get_cluster_shadow_coverage computes lies in [0,1].
C14_CoverageInUnitInterval ==
  FoldApplied =>
    \A user_id \in DOMAIN fn.out : \A cluster_id \in DOMAIN fn.out[user_id] :
      fn.out[user_id][cluster_id] >= 0 /\ fn.out[user_id][cluster_id] <= Scale

\* a list of several different values whose fold has added coverage to the maximum
C14_Witness ==
  /\ FoldApplied
  /\ Len(fn.L) > 1
  /\ fn.cutoff = 0
  /\ fn.out["u1"][0] > MaxOf(fn.L)

\* C15 as stated: a cluster whose modulator list is empty gets the coverage 0.
C15_EmptyListCoverageZero ==
  (FoldApplied /\ fn.L = <<>>) =>
    0 \in DOMAIN fn.out["u1"] /\ fn.out["u1"][0] = 0

\* C15 amended: a cluster whose modulator list is empty gets no coverage entry
\* at all, and a cluster whose list is not empty gets one.
C15_EmptyListNoEntry ==
  FoldApplied =>
    /\ 0 \in DOMAIN fn.out["u1"] <=> fn.L # <<>>
    /\ 1 \in DOMAIN fn.out["u1"] <=> fn.P # <<>>

C15_Witness ==
  FoldApplied /\ fn.L = <<>>

SortDesc(values) == SortSeq(values, LAMBDA a, b : a > b)

\* the folding rule of the claim over the values after the seed
RECURSIVE ClaimFoldRest(_, _, _)
ClaimFoldRest(values, coverage, cut) ==
  IF values = <<>> THEN coverage
  ELSE ClaimFoldRest(Tail(values),
         coverage + ((Head(values) * (Scale - cut)) * (Scale - coverage)) \div (Scale * Scale),
         cut)

ClaimFold(values, cut) ==
  ClaimFoldRest(Tail(SortDesc(values)), Head(SortDesc(values)), cut)

\* C16: for a non-empty modulator list get_cluster_shadow_coverage returns the
\* value of the folding rule: seed with the first element of the list sorted
\* descending, then fold every remaining element, those equal to the maximum
\* included.
C16_FoldRule ==
  (FoldApplied /\ fn.L # <<>>) => fn.out["u1"][0] = ClaimFold(fn.L, fn.cutoff)

\* C17: get_cluster_shadow_coverage gives a modulator list and every permutation
\* of it the same coverage.
C17_FoldOrderIndependent ==
  (FoldApplied /\ fn.L # <<>>) => fn.out["u1"][0] = fn.out["u1"][1]

GatherApplied == fn.op = "gather_final_results" /\ fn.done

\* the record carries a persuasiveness score that lines 535-537 can read
Parses(record) ==
  record.persuasiveness_justification.json /\ record.persuasiveness_justification.numeric

\* no record of the input makes line 537 or 558 raise
NoneScoreless ==
  \A u \in DOMAIN fn.wepcc_results : \A c \in DOMAIN fn.wepcc_results[u] :
    LET pj == fn.wepcc_results[u][c].persuasiveness_justification
    IN pj.json => pj.numeric

ScoreOf(record) == record.persuasiveness_justification.persuasiveness_score

\* the contribution the claim gives a cluster: its tag and its score
ClaimContribution(coverage, record, cluster_id, multiplier) ==
  IF cluster_id \in DOMAIN coverage
  THEN [cluster |-> cluster_id, type |-> "addressed",
        score |-> ((Scale - coverage[cluster_id]) * ScoreOf(record)) \div Scale]
  ELSE [cluster |-> cluster_id, type |-> "unaddressed",
        score |-> (ScoreOf(record) * multiplier) \div Scale]

RECURSIVE SumContributions(_, _, _, _)
SumContributions(cluster_ids, coverage, records, multiplier) ==
  IF cluster_ids = {} THEN 0
  ELSE LET c == CHOOSE x \in cluster_ids : TRUE
       IN ClaimContribution(coverage, records[c], c, multiplier).score
            + SumContributions(cluster_ids \ {c}, coverage, records, multiplier)

\* the entry of a participant in the results list
ResultOf(results, user_id) ==
  results[CHOOSE i \in DOMAIN results : results[i].user = user_id]

\* the entry of a cluster in a participant's result
EntryOf(result, cluster_id) ==
  result.clusters[CHOOSE i \in DOMAIN result.clusters : result.clusters[i].cluster = cluster_id]

\* C18: when no record of the input lacks the score inside parseable JSON, then
\* for a participant whose argument records all carry a parseable
\* persuasiveness score, gather_final_results lists each cluster once, a cluster
\* with a coverage entry as "addressed" with (1 - coverage) * score, a cluster
\* without one as "unaddressed" with score * multiplier, and the participant's
\* total is the sum of these contributions.
C18_Aggregation ==
  (GatherApplied /\ NoneScoreless) =>
    \A user_id \in DOMAIN fn.cluster_shadow_coverage :
      LET records == fn.wepcc_results[user_id]
          coverage == fn.cluster_shadow_coverage[user_id]
      IN (\A c \in DOMAIN records : Parses(records[c])) =>
           /\ \E i \in DOMAIN fn.out.results : fn.out.results[i].user = user_id
           /\ LET result == ResultOf(fn.out.results, user_id)
              IN /\ Len(result.clusters) = Cardinality(DOMAIN records)
                 /\ \A c \in DOMAIN records :
                      /\ \E i \in DOMAIN result.clusters : result.clusters[i].cluster = c
                      /\ EntryOf(result, c) = ClaimContribution(coverage, records[c], c, fn.multiplier)
                 /\ result.total_score =
                      SumContributions(DOMAIN records, coverage, records, fn.multiplier)
                 /\ fn.out.aggregated_scores[user_id] = result.total_score

\* u2 has one cluster with score 0.8 and no coverage entry and, with the
\* multiplier 2.5, the total 2.0; u1 has an addressed and an unaddressed cluster
C18_Witness ==
  /\ GatherApplied
  /\ NoneScoreless
  /\ fn.multiplier = 250
  /\ "u2" \in DOMAIN fn.wepcc_results
  /\ fn.cluster_shadow_coverage["u2"] = EmptyDict
  /\ ScoreOf(fn.wepcc_results["u2"][0]) = 80
  /\ fn.out.aggregated_scores["u2"] = 200
  /\ DOMAIN fn.cluster_shadow_coverage["u1"] = {0}
  /\ \A c \in {0, 1} : Parses(fn.wepcc_results["u1"][c]) /\ ScoreOf(fn.wepcc_results["u1"][c]) > 0
  /\ fn.out.aggregated_scores["u1"] > 0

ScoringApplied == fn.op = "scoring" /\ fn.done

\* cluster A of user_idA has similarity 1 with the claim of a cluster of another participant
FullyMatched(wepcc_results, user_idA, cluster_idA) ==
  \E B \in OtherClusters(wepcc_results, user_idA) :
    sim_score(wepcc_results[user_idA][cluster_idA].counterclaim,
              wepcc_results[B[1]][B[2]].claim) = Scale

\* C19: with the cutoff 0.5, a cluster A whose counterclaim has similarity 1 with
\* the claim of a cluster of another participant has the normalized value 1.0 in
\* its modulator list, the shadow coverage exactly 1.0 whatever else the list
\* holds, and the addressed contribution 0.
C19_FullMatchScoresZero ==
  ScoringApplied =>
    \A user_idA \in DOMAIN fn.wepcc_results :
      \A cluster_idA \in DOMAIN fn.wepcc_results[user_idA] :
        FullyMatched(fn.wepcc_results, user_idA, cluster_idA) =>
          /\ Count(fn.out.cluster_weight_modulator[user_idA][cluster_idA], Scale) >= 1
          /\ cluster_idA \in DOMAIN fn.out.cluster_shadow_coverage[user_idA]
          /\ fn.out.cluster_shadow_coverage[user_idA][cluster_idA] = Scale
          /\ Parses(fn.wepcc_results[user_idA][cluster_idA]) =>
               \E i \in DOMAIN fn.out.final.addressed_clusters[user_idA] :
                 fn.out.final.addressed_clusters[user_idA][i] =
                   [cluster |-> cluster_idA, type |-> "addressed", score |-> 0]

\* the cluster of u2 matches one claim of u1 fully and another one partly, and
\* its persuasiveness score is not 0
C19_Witness ==
  /\ ScoringApplied
  /\ FullyMatched(fn.wepcc_results, "u2", 0)
  /\ Len(fn.out.cluster_weight_modulator["u2"][0]) = 2
  /\ \E i \in 1..2 : fn.out.cluster_weight_modulator["u2"][0][i] < Scale
  /\ Parses(fn.wepcc_results["u2"][0])
  /\ ScoreOf(fn.wepcc_results["u2"][0]) > 0

\* a participant's clusters a (with coverage) and b (without), both with a
\* parseable persuasiveness score
AddressedAndNot(user_id, a, b) ==
  /\ a \in DOMAIN fn.cluster_shadow_coverage[user_id]
  /\ b \in DOMAIN fn.wepcc_results[user_id] \ DOMAIN fn.cluster_shadow_coverage[user_id]
  /\ Parses(fn.wepcc_results[user_id][a])
  /\ Parses(fn.wepcc_results[user_id][b])
  /\ ScoreOf(fn.wepcc_results[user_id][a]) = ScoreOf(fn.wepcc_results[user_id][b])
  /\ fn.multiplier > Scale
  /\ fn.cluster_shadow_coverage[user_id][a] > 0
  /\ fn.cluster_shadow_coverage[user_id][a] <= Scale

UnaddressedExceeds(user_id, a, b) ==
  EntryOf(ResultOf(fn.out.results, user_id), b).score
    > EntryOf(ResultOf(fn.out.results, user_id), a).score

\* C20 as stated: for every persuasiveness score p, multiplier m > 1 and coverage
\* c in (0,1], the contribution of an unaddressed cluster with score p is
\* strictly greater than that of an addressed cluster with score p.
C20_UnaddressedExceedsAddressed ==
  GatherApplied =>
    \A user_id \in DOMAIN fn.cluster_shadow_coverage :
      \A a \in DOMAIN fn.wepcc_results[user_id] : \A b \in DOMAIN fn.wepcc_results[user_id] :
        AddressedAndNot(user_id, a, b) => UnaddressedExceeds(user_id, a, b)

\* C20 amended: the same for every persuasiveness score p > 0.
C20_UnaddressedExceedsAddressedPositive ==
  GatherApplied =>
    \A user_id \in DOMAIN fn.cluster_shadow_coverage :
      \A a \in DOMAIN fn.wepcc_results[user_id] : \A b \in DOMAIN fn.wepcc_results[user_id] :
        (AddressedAndNot(user_id, a, b) /\ ScoreOf(fn.wepcc_results[user_id][a]) > 0)
          => UnaddressedExceeds(user_id, a, b)

\* the smallest multiplier and the smallest coverage, with a positive score
C20_Witness ==
  /\ GatherApplied
  /\ AddressedAndNot("u1", 0, 1)
  /\ ScoreOf(fn.wepcc_results["u1"][0]) > 0
  /\ fn.multiplier = 101
  /\ fn.cluster_shadow_coverage["u1"][0] = 1


\* ---------------------------------------------------------------- C21 .. C30
\* the clusters of a participant whose record carries a readable persuasiveness score
WellFormedClusters(records) ==
  {c \in DOMAIN records : Parses(records[c])}

\* C21: whatever records are malformed (unparseable JSON, or JSON without a
\* numeric content.persuasiveness_score), gather_final_results returns, and every
\* participant has a result that lists exactly that participant's well-formed
\* clusters, each with its contribution, and totals them.
C21_MalformedSkippedLocally ==
  GatherApplied =>
    /\ ~fn.out.raised
    /\ \A user_id \in DOMAIN fn.cluster_shadow_coverage :
         LET records == fn.wepcc_results[user_id]
             coverage == fn.cluster_shadow_coverage[user_id]
             good == WellFormedClusters(records)
         IN /\ \E i \in DOMAIN fn.out.results : fn.out.results[i].user = user_id
            /\ LET result == ResultOf(fn.out.results, user_id)
               IN /\ {result.clusters[i].cluster : i \in DOMAIN result.clusters} = good
                  /\ \A c \in good :
                       EntryOf(result, c) = ClaimContribution(coverage, records[c], c, fn.multiplier)
                  /\ result.total_score =
                       SumContributions(good, coverage, records, fn.multiplier)

\* C21 for unparseable JSON alone: the part of the claim the code keeps
C21_UnparseableSkippedLocally ==
  (GatherApplied /\ NoneScoreless) => C21_MalformedSkippedLocally


BroadcastApplied == fn.op = "broadcast_to_websocket_group" /\ fn.done

\* C22: whichever observers of the group fail, broadcast_to_websocket_group
\* delivers the event to every observer that does not fail, and returns to its
\* caller so that the generation task goes on with its next stage.
C22_BestEffortFanOut ==
  BroadcastApplied =>
    /\ \A i \in DOMAIN fn.websocket_group :
         fn.websocket_group[i].open =>
           \E j \in DOMAIN fn.out.delivered :
             fn.out.delivered[j] = [to |-> fn.websocket_group[i].id, message |-> fn.json_message]
    /\ ~fn.out.raised

\* C22 with no failing observer: every observer gets the event once, in order
C22_AllOpenDelivered ==
  (BroadcastApplied /\ \A i \in DOMAIN fn.websocket_group : fn.websocket_group[i].open) =>
    /\ ~fn.out.raised
    /\ fn.out.delivered =
         [i \in DOMAIN fn.websocket_group |->
            [to |-> fn.websocket_group[i].id, message |-> fn.json_message]]


\* a generation-level failure event of generation n was sent
FailureReported(n) ==
  \E i \in DOMAIN co[n].sent :
    /\ co[n].sent[i].message.status \notin {"initial_clusters", "updated_clusters"}
    /\ co[n].sent[i].message.generation = n

\* the exception of generation n has left execute_task
FailureHandled(n) ==
  co[n].pc = "raised" /\ ~(cons.pc = "reflect" /\ cons.task.generation_nonce = n)

\* C23: once a collaborator failure of generation n has been dealt with, a
\* failure event of n has been reported, the controller is not left running n,
\* and the consumer is alive to take the next task.
C23_FailureFatalToGenerationOnly ==
  \A n \in Nonces :
    FailureHandled(n) =>
      /\ FailureReported(n)
      /\ current_generation # n
      /\ cons.pc # "dead"


WepccApplied == fn.op = "wepcc_cluster" /\ fn.done

\* C24: every wepcc_result event that wepcc_cluster has report_wepcc_result make
\* for a generation carries the nonce of that generation in its generation field.
C24_WepccEventCarriesNonce ==
  WepccApplied =>
    \A event \in fn.out.reports : event.generation = NonceStr(fn.generation)

\* C24 for the events that check_and_reflect broadcasts itself: every event a
\* generation has sent carries that generation's nonce.
C24_ClusterEventsCarryNonce ==
  \A n \in Nonces : \A i \in DOMAIN co[n].sent : co[n].sent[i].message.generation = n


\* the events generation n has sent have a final_result after all the others
FinalResultSent(n) ==
  \E i \in DOMAIN co[n].sent :
    /\ co[n].sent[i].message.status = "final_result"
    /\ co[n].sent[i].to = co[n].session_id
    /\ \A j \in DOMAIN co[n].sent :
         co[n].sent[j].message.status # "final_result" => j < i

\* C25: a generation that has finished its aggregation and stored its results
\* has sent a final_result event to the session's observers, after its other events.
C25_FinalResultEmitted ==
  \A n \in Nonces : co[n].pc = "completed" => FinalResultSent(n)


\* generation n has sent an event with this status
SentEvent(n, status) ==
  \E i \in DOMAIN co[n].sent : co[n].sent[i].message.status = status

EventOf(n, status) ==
  co[n].sent[CHOOSE i \in DOMAIN co[n].sent : co[n].sent[i].message.status = status].message

\* the clustering of all the messages generation n read
FullClustering(n) ==
  cluster_messages(co[n].user_messages, n, co[n].session_id)

\* the generations of a session that ran the diff, and the last of them
Diffed(session_id) ==
  {n \in Nonces : co[n].session_id = session_id /\ SentEvent(n, "updated_clusters")}

LastDiffed(session_id) ==
  CHOOSE n \in Diffed(session_id) : \A m \in Diffed(session_id) : m <= n

Extracted == {"match", "gather", "store", "completed", "returned"}

\* C26: a generation reports its full clustering in the initial_clusters event;
\* the previous clustering stored for a session is the full clustering of the
\* last generation of the session that ran the diff; and argument extraction
\* has a record for exactly the clusters of the updated_clusters event, the
\* result of the diff.
C26_FullReportedDiffExtracted ==
  /\ \A n \in Nonces :
       co[n].pc \in (Running \cup Finished) \ {"start"} =>
         /\ co[n].sent[1].to = co[n].session_id
         /\ co[n].sent[1].message =
              [status |-> "initial_clusters", clusters |-> FullClustering(n), generation |-> n]
  /\ \A session_id \in Sessions :
       Diffed(session_id) # {} =>
         get_value(app_state, KeyPreviousClusters(session_id), EmptyDict)
           = FullClustering(LastDiffed(session_id))
  /\ \A n \in Nonces :
       co[n].pc \in Extracted =>
         LET changed == EventOf(n, "updated_clusters").clusters
         IN /\ DOMAIN co[n].wepcc_results = DOMAIN changed
            /\ \A u \in DOMAIN changed :
                 /\ DOMAIN co[n].wepcc_results[u] = DOMAIN changed[u]
                 /\ \A c \in DOMAIN changed[u] :
                      co[n].wepcc_results[u][c] = fetch_argument_definition(changed[u][c].sentences)

\* a generation of s1 with the clusters of two participants has run to its end
C26_Witness ==
  \E n \in Nonces :
    /\ co[n].pc = "completed"
    /\ co[n].session_id = "s1"
    /\ DOMAIN FullClustering(n) = {"u1", "u2"}
    /\ LastDiffed("s1") = n
    /\ DOMAIN co[n].wepcc_results = {"u1", "u2"}


\* the generation whose submit put this reset task, when no reset was requested
\* on its own: generation m puts the reset with id 2m - 1 and its task with id 2m
ResetOwner(task) == (task.id + 1) \div 2

\* the reset that the consumer is processing removes a pending generation task
DrainRemovesTask ==
  /\ cons.pc = "drain"
  /\ task_queue # <<>>
  /\ Head(task_queue).type = "check_and_reflect"
  /\ task_queue' = Tail(task_queue)

\* C27: the reset that a submit puts on the queue removes pending generation
\* tasks of that submit's own session only.
C27_CancelWithinSessionOnly ==
  [][(resets = 0 /\ DrainRemovesTask) =>
       Head(task_queue).session_id = generations[ResetOwner(cons.task)].session_id]_vars


\* the wepcc results and the aggregated scores that are stored
StoredScores ==
  <<get_value(app_state, KeyWepccResults, EmptyDict),
    get_value(app_state, KeyAggregatedScores, EmptyDict)>>

\* generation n stores its results (lines 449-452)
StoresResults(n) == co[n].pc = "store" /\ co'[n].pc = "completed"

\* C28: when a generation of session B stores its results, the wepcc results
\* and aggregated scores stored by a completed generation of another session A
\* stay as they are.
C28_ScoresSessionScoped ==
  [][\A n \in Nonces : \A m \in Nonces :
       (/\ StoresResults(n)
        /\ co[m].pc = "completed"
        /\ co[m].session_id # co[n].session_id)
         => StoredScores' = StoredScores]_vars


\* execute_task is running the task of generation n
TaskRunning(n) ==
  /\ cons.task.type = "check_and_reflect"
  /\ cons.task.generation_nonce = n
  /\ cons.pc \in {"execute", "reflect", "task_done"}

\* C29: the controller is RUNNING(n), current_generation = n, only while the task
\* of generation n is being executed; once the task has returned the controller
\* is IDLE or running a later task.
C29_ControllerStateMachine ==
  \A n \in Nonces : current_generation = n => TaskRunning(n)


\* a step of integrate
IntegrateStep == loop' # loop \/ calls' # calls

\* the queue after the step is the queue before it, with at most one task added
OnlyEnqueues ==
  \/ task_queue' = task_queue
  \/ /\ task_queue' # <<>>
     /\ task_queue' = Append(task_queue, task_queue'[Len(task_queue')])

\* C30: a step of integrate adds at most one task to the queue and touches
\* neither the consumer, nor a coroutine of check_and_reflect, nor the current
\* generation; and integrate waiting to put a task can always put it, whatever
\* the consumer is doing.
C30_SubmitNonBlocking ==
  /\ [][IntegrateStep =>
          /\ OnlyEnqueues
          /\ UNCHANGED <<cons, co, current_generation>>]_vars
  /\ [](loop.pc = "put_reset" => ENABLED IntegratePutReset)
  /\ [](loop.pc = "put_task" => ENABLED IntegratePutTask)

\* integrate has put the reset and the task of generation 2 and returned while
\* the consumer is inside check_and_reflect for generation 1
C30_Witness ==
  /\ cons.pc = "reflect"
  /\ cons.task.generation_nonce = 1
  /\ co[1].pc \in Running
  /\ Submitted(2)
  /\ Len(task_queue) = 2
  /\ TaskPending(2)
  /\ \A i \in DOMAIN task_queue : task_queue[i].id > co[1].started


\* ---------------------------------------------------------------- C31 .. C39
History(session_id) == get_value(app_state, KeyMessageHistory(session_id), <<>>)

\* the generations of a session, in submit order
RECURSIVE SubmitsOf(_, _)
SubmitsOf(gens, session_id) ==
  IF gens = <<>> THEN <<>>
  ELSE (IF Head(gens).session_id = session_id THEN <<Head(gens).user_id>> ELSE <<>>)
         \o SubmitsOf(Tail(gens), session_id)

\* the last entries of the history of a session are those of its submits, in order
InSubmitOrder(session_id) ==
  LET submits == SubmitsOf(generations, session_id)
      history == History(session_id)
      before == Len(history) - Len(submits)
  IN /\ before >= 0
     /\ \A i \in DOMAIN submits : history[before + i].user_id = submits[i]

\* a step leaves a history as it is, or adds one entry at its end
AppendOnly(session_id) ==
  LET history == History(session_id)
      after == get_value(app_state', KeyMessageHistory(session_id), <<>>)
  IN \/ after = history
     \/ /\ Len(after) = Len(history) + 1
        /\ SubSeq(after, 1, Len(history)) = history

\* C31: every step leaves each session's history as it is or adds one entry at
\* its end; a valid submit adds exactly one entry, that of the submitting
\* participant, to the history of its session and none to another; and each
\* history ends with the entries of the session's submits in submit order.
C31_HistoryAppendOnly ==
  /\ [][/\ \A session_id \in Sessions : AppendOnly(session_id)
        /\ generations' # generations =>
             LET submit == generations'[Len(generations')]
             IN /\ get_value(app_state', KeyMessageHistory(submit.session_id), <<>>)
                     # History(submit.session_id)
                /\ \A other \in Sessions \ {submit.session_id} :
                     get_value(app_state', KeyMessageHistory(other), <<>>) = History(other)
        /\ generations' = generations =>
             \A session_id \in Sessions :
               get_value(app_state', KeyMessageHistory(session_id), <<>>) = History(session_id)]_vars
  /\ [](\A session_id \in Sessions : InSubmitOrder(session_id))

\* the stored history of s1 with the entries of two submits after it, of u2 and of u1
C31_Witness ==
  /\ Len(History("s1")) = Len(PreloadedHistory) + 2
  /\ SubmitsOf(generations, "s1") = <<"u2", "u1">>
  /\ SubSeq(History("s1"), 1, Len(PreloadedHistory)) = PreloadedHistory


ReflectApplied == fn.op = "check_and_reflect" /\ fn.done

\* C32: after the stages of a generation, every participant of the full
\* clustering has a result with one contribution for each of the participant's
\* clusters, changed or not, and each of these clusters has its list of
\* cross-match values.
C32_EveryClusterScored ==
  ReflectApplied =>
    \A user_id \in DOMAIN fn.clusters :
      /\ \E i \in DOMAIN fn.out.final.results : fn.out.final.results[i].user = user_id
      /\ LET result == ResultOf(fn.out.final.results, user_id)
         IN /\ Len(result.clusters) = Cardinality(DOMAIN fn.clusters[user_id])
            /\ {result.clusters[i].cluster : i \in DOMAIN result.clusters}
                 = DOMAIN fn.clusters[user_id]
      /\ user_id \in DOMAIN fn.out.cluster_weight_modulator
      /\ DOMAIN fn.out.cluster_weight_modulator[user_id] = DOMAIN fn.clusters[user_id]

\* C32 when the diff returns every cluster: all clusters are scored
C32_EveryChangedClusterScored ==
  (ReflectApplied /\ fn.out.updated_clusters = fn.clusters) => C32_EveryClusterScored


\* C33: at most one DebateSimulator is ever made, whether it is asked for
\* through get_instance() or through the constructor, and every get_instance()
\* call returns that one instance.
C33_Singleton ==
  /\ fn.made <= 1
  /\ \A t \in Threads : fn.th[t].pc = "got" => fn.th[t].got = 1

\* C33 for get_instance() alone: while no thread has used the constructor, one
\* instance at most is made and every call returns it
C33_GetInstanceSingleton ==
  (\A t \in Threads : fn.th[t].pc \notin {"constructed", "raised"}) => C33_Singleton


\* the consumer is about to mark the task of generation n done
MarkingDone(n) ==
  /\ cons.pc = "task_done"
  /\ cons.task.type = "check_and_reflect"
  /\ cons.task.generation_nonce = n

\* C34: when the consumer marks a check_and_reflect task done, the body of
\* check_and_reflect has run for the task's nonce (the clustering is made and
\* the initial_clusters event is sent) and has returned.
C34_PipelineRuns ==
  \A n \in Nonces :
    MarkingDone(n) =>
      /\ co[n].pc \in Finished
      /\ SentEvent(n, "initial_clusters")

\* what the next submit of a session reads as its prior ontology (line 271)
PriorOntologyRead(session_id) ==
  get_value(app_state, KeyPriorOntology(session_id), <<>>)

\* the ontology results of the submits of a session, in order
OntologiesOf(session_id) ==
  LET submits == SubmitsOf(generations, session_id)
      history == History(session_id)
      before == Len(history) - Len(submits)
  IN [i \in DOMAIN submits |-> get_ontology(submits[i], session_id, history[before + i])]

\* C35: the prior-ontology list that the next submit of a session reads holds
\* the ontology results of the session's earlier submits, in order.
C35_PriorOntologyKept ==
  \A session_id \in Sessions : PriorOntologyRead(session_id) = OntologiesOf(session_id)


\* the consumer is inside check_and_reflect for generation n
Executing(n) == cons.pc = "reflect" /\ cons.task.generation_nonce = n

\* C36: while the task of generation n is executing, current_generation is n,
\* so check_generation_halting(n) is false and the task is not halted at a
\* checkpoint, whatever submits and reset requests have been made meanwhile.
C36_NoHaltWhileExecuting ==
  \A n \in Nonces :
    Executing(n) =>
      /\ current_generation = n
      /\ ~(current_generation # None /\ current_generation # n)
      /\ co[n].pc # "halted"

\* generation n is at a checkpoint after a later submit of its session and a
\* reset request made while it was executing
C36_Witness ==
  \E n \in Nonces :
    /\ Executing(n)
    /\ co[n].pc \in Checkpoints
    /\ Superseded(n)
    /\ ResetRequestedDuring(n)

ScoreKeys ==
  {KeyWepccResults, KeyAggregatedScores, KeyAddressedClusters, KeyUnaddressedClusters}

\* C37: a generation whose full clustering has fewer than two participants goes
\* no further than the insufficient-data check; a generation that returned
\* there has run argument extraction on the clusters of its diff, and the
\* previous clustering stored for its session is its full clustering until a
\* later generation of the session runs the diff; and as long as no generation
\* has gone past the check, no score key is stored.
C37_InsufficientDataReturn ==
  /\ \A n \in Nonces :
       Cardinality(DOMAIN FullClustering(n)) < 2 => co[n].pc \notin AfterInsufficientDataCheck
  /\ \A n \in Nonces :
       co[n].pc = "returned" =>
         /\ SentEvent(n, "updated_clusters")
         /\ LET changed == EventOf(n, "updated_clusters").clusters
            IN /\ DOMAIN co[n].wepcc_results = DOMAIN changed
               /\ \A u \in DOMAIN changed :
                    /\ DOMAIN co[n].wepcc_results[u] = DOMAIN changed[u]
                    /\ \A c \in DOMAIN changed[u] :
                         co[n].wepcc_results[u][c]
                           = fetch_argument_definition(changed[u][c].sentences)
         /\ LastDiffed(co[n].session_id) = n =>
              get_value(app_state, KeyPreviousClusters(co[n].session_id), EmptyDict)
                = FullClustering(n)
  /\ (\A n \in Nonces : co[n].pc \notin AfterInsufficientDataCheck) =>
       DOMAIN app_state \cap ScoreKeys = {}

\* a generation of s1 with the clusters of u1 alone has returned at the check:
\* u1's clusters have argument records and are the stored previous clustering
C37_Witness ==
  \E n \in Nonces :
    /\ co[n].pc = "returned"
    /\ DOMAIN FullClustering(n) = {"u1"}
    /\ DOMAIN co[n].wepcc_results = {"u1"}
    /\ DOMAIN co[n].wepcc_results["u1"] # {}
    /\ get_value(app_state, KeyPreviousClusters(co[n].session_id), EmptyDict) = FullClustering(n)
    /\ DOMAIN app_state \cap ScoreKeys = {}


\* the sum of the scores of the entries listed for a participant
RECURSIVE ListedTotal(_, _)
ListedTotal(entries, indices) ==
  IF indices = {} THEN 0
  ELSE LET i == CHOOSE x \in indices : TRUE
       IN entries[i].score + ListedTotal(entries, indices \ {i})

ClusterIdsOf(entries) == {entries[i].cluster : i \in DOMAIN entries}

\* what the claim says of an output of gather_final_results for the argument
\* records wepcc_results
GatherOutputConsistent(wepcc_results, out) ==
  \A user_id \in DOMAIN wepcc_results :
    /\ Cardinality({i \in DOMAIN out.results : out.results[i].user = user_id}) = 1
    /\ LET result == ResultOf(out.results, user_id)
           addressed == out.addressed_clusters[user_id]
           unaddressed == out.unaddressed_clusters[user_id]
       IN /\ ClusterIdsOf(addressed) \cap ClusterIdsOf(unaddressed) = {}
          /\ Cardinality(ClusterIdsOf(addressed)) = Len(addressed)
          /\ Cardinality(ClusterIdsOf(unaddressed)) = Len(unaddressed)
          /\ Len(result.clusters) = Len(addressed) + Len(unaddressed)
          /\ \A i \in DOMAIN result.clusters :
               LET e == result.clusters[i]
               IN \/ e.type = "addressed" /\ \E j \in DOMAIN addressed : addressed[j] = e
                  \/ e.type = "unaddressed" /\ \E j \in DOMAIN unaddressed : unaddressed[j] = e
          /\ result.total_score = ListedTotal(result.clusters, DOMAIN result.clusters)
          /\ out.aggregated_scores[user_id] = result.total_score

\* C38: when gather_final_results returns, every participant with argument
\* records has exactly one entry in results, no cluster is in both of the
\* participant's addressed and unaddressed lists or twice in one of them, and
\* the participant's total_score is the sum of the scores of the entries listed.
C38_ResultsConsistent ==
  /\ (GatherApplied /\ ~fn.out.raised) => GatherOutputConsistent(fn.wepcc_results, fn.out)
  /\ (ScoringApplied /\ ~fn.out.final.raised) =>
       GatherOutputConsistent(fn.wepcc_results, fn.out.final)

\* two participants; u1 has an addressed and an unaddressed cluster, both with a
\* positive score, and the total of the two
C38_Witness ==
  /\ GatherApplied
  /\ ~fn.out.raised
  /\ DOMAIN fn.wepcc_results = {"u1", "u2"}
  /\ Len(fn.out.results) = 2
  /\ Len(fn.out.addressed_clusters["u1"]) = 1
  /\ Len(fn.out.unaddressed_clusters["u1"]) = 1
  /\ fn.out.addressed_clusters["u1"][1].score > 0
  /\ fn.out.unaddressed_clusters["u1"][1].score > 0
  /\ ResultOf(fn.out.results, "u1").total_score =
       fn.out.addressed_clusters["u1"][1].score + fn.out.unaddressed_clusters["u1"][1].score


IsPrefix(s, t) == Len(s) <= Len(t) /\ SubSeq(t, 1, Len(s)) = s

Terminal(message) == message.status \in {"completed", "error"}

\* the order the claim gives the statuses sent so far
ChatOrder(sent) ==
  /\ Len(sent) >= 1 => sent[1].status = "started"
  /\ \A i \in 2..Len(sent) : sent[i].status \in {"generating", "completed", "error"}
  /\ \A i \in 1..(Len(sent) - 1) : ~Terminal(sent[i])
  /\ \A i \in 3..Len(sent) :
       sent[i].status = "generating" => IsPrefix(sent[i - 1].response, sent[i].response)
  /\ \A i \in 1..Len(sent) : sent[i].status = "completed" => sent[i].completed

ChatFinished == fn.pc \in {"returned", "raised"}

TerminalSent == fn.sent # <<>> /\ Terminal(fn.sent[Len(fn.sent)])

\* C39: on every connection of /chat the statuses sent are "started", then
\* "generating" statuses each extending the response of the one before, then
\* one terminal status, nothing after it; the socket is closed once, after the
\* terminal status; and a connection whose handler has finished has had its
\* terminal status and its close.
C39_ChatMessageOrder ==
  fn.op = "chat" =>
    /\ ChatOrder(fn.sent)
    /\ fn.closed <= 1
    /\ fn.closed = 1 => TerminalSent
    /\ ChatFinished => TerminalSent /\ fn.closed = 1

\* what /chat does keep: the order of whatever is sent, and at most one close,
\* after a terminal status
C39_OrderOfWhatIsSent ==
  fn.op = "chat" =>
    /\ ChatOrder(fn.sent)
    /\ fn.closed <= 1
    /\ fn.closed = 1 => TerminalSent

\* with a payload the handler can read and a client that stays connected, the
\* connection ends with its terminal status and one close
C39_ReadablePayloadCompletes ==
  (fn.op = "chat" /\ ChatFinished /\ fn.open
     /\ fn.payload.json /\ ~ExtractRaises(fn.payload)) =>
    TerminalSent /\ fn.closed = 1

\* a connection that sent two "generating" statuses, "completed", and closed
C39_FullRun ==
  /\ fn.op = "chat"
  /\ fn.pc = "returned"
  /\ Len(fn.sent) = 4
  /\ fn.sent[4].status = "completed"
  /\ fn.sent[4].response = <<1, 2>>
  /\ fn.closed = 1

====
